---- MODULE Spec2Model ----
(***************************************************************************)
(* AgentHub (contracts/agent_hub): the signal ledger, the statistics       *)
(* aggregator, the follower registry and the cross-chain subscription      *)
(* handshake of the contract, as a state machine over several chains.      *)
(*                                                                         *)
(* Every chain holds one AgentHubState.  An operation or an inbound        *)
(* message is executed to completion on one chain; messages travel in      *)
(* `network`.  Option<T> is modelled as a set with at most one element,    *)
(* a MapView<K,V> as a function whose domain is the set of stored keys,    *)
(* a Vec<T> as a sequence.                                                 *)
(***************************************************************************)
EXTENDS Integers, Sequences, FiniteSets, TLC

VARIABLES
    state,      \* state[c]: the AgentHubState of chain c
    clock,      \* clock[c]: system_time() of chain c, in microseconds
    network,    \* the messages sent and not yet delivered, each with its destination
    delivered,  \* the messages delivered at least once
    subscribed, \* the subscribe calls answered Subscribed so far (a history)
    cancelled,  \* the <<chain, signal id>> of every cancel answered SignalCancelled (a history)
    calc        \* a computation of the contract's arithmetic on its own: inputs and outcome

vars == <<state, clock, network, delivered, subscribed, cancelled, calc>>

-----------------------------------------------------------------------------
(* Bounds of the model                                                     *)

MaxStrategies == 1
MaxSignals == 2
MaxSubscriptions == 2
MaxTime == 1
MaxIndexLen == 2
MaxRequests == 1

Chains == {"c1", "c2"}
Accounts == {"a1", "a2"}

-----------------------------------------------------------------------------
(* Option, MapView and integer helpers                                     *)

None == {}
Some(x) == {x}
IsSome(o) == o # {}
Unwrap(o) == CHOOSE x \in o : TRUE
UnwrapOr(o, d) == IF o = {} THEN d ELSE CHOOSE x \in o : TRUE

EmptyMap == [k \in {} |-> {}]
ContainsKey(m, k) == k \in DOMAIN m
Get(m, k) == IF k \in DOMAIN m THEN {m[k]} ELSE {}
Insert(m, k, v) == [x \in (DOMAIN m) \cup {k} |-> IF x = k THEN v ELSE m[x]]
Remove(m, k) == [x \in (DOMAIN m) \ {k} |-> m[x]]

\* Rust integer division truncates toward zero
\* (b > 0 wherever the contract divides)
TruncDiv(a, b) == IF a >= 0 THEN a \div b ELSE -((-a) \div b)

\* A u64 count of microseconds is kept as <<seconds, microseconds>>, standing for
\* seconds * 1_000_000 + microseconds, so that 30 days of microseconds can be added.
MicrosPerSec == 1000 * 1000
Micros(u) == <<u \div MicrosPerSec, u % MicrosPerSec>>
SecsAsMicros(secs) == <<secs, 0>>
AddMicros(a, b) ==
    <<a[1] + b[1] + ((a[2] + b[2]) \div MicrosPerSec), (a[2] + b[2]) % MicrosPerSec>>

-----------------------------------------------------------------------------
(* 64-bit arithmetic.  The values of u64 and i64 exceed the integers the   *)
(* model checker computes with, so where the width matters a natural       *)
(* number is a sequence of limbs in base 10000, least significant first,   *)
(* without leading zero limbs (zero is << >>), and an integer is a sign    *)
(* and a magnitude.                                                        *)

LimbBase == 100 * 100

RECURSIVE NatTrim(_)
NatTrim(m) ==
    IF m = << >> THEN m
    ELSE IF m[Len(m)] = 0 THEN NatTrim(SubSeq(m, 1, Len(m) - 1)) ELSE m

RECURSIVE NatOf(_)
NatOf(n) == IF n = 0 THEN << >> ELSE <<n % LimbBase>> \o NatOf(n \div LimbBase)

\* The value of m as a plain integer (for m below 2^31).
RECURSIVE NatToInt(_)
NatToInt(m) == IF m = << >> THEN 0 ELSE m[1] + LimbBase * NatToInt(Tail(m))

Limb(m, i) == IF i <= Len(m) THEN m[i] ELSE 0

RECURSIVE NatAddFrom(_, _, _, _)
NatAddFrom(a, b, i, carry) ==
    IF i > Len(a) /\ i > Len(b)
    THEN IF carry = 0 THEN << >> ELSE <<carry>>
    ELSE LET x == Limb(a, i) + Limb(b, i) + carry IN
         <<x % LimbBase>> \o NatAddFrom(a, b, i + 1, x \div LimbBase)

NatAdd(a, b) == NatAddFrom(a, b, 1, 0)

RECURSIVE NatSubFrom(_, _, _, _)
NatSubFrom(a, b, i, borrow) ==
    IF i > Len(a) THEN << >>
    ELSE LET x == a[i] - Limb(b, i) - borrow IN
         IF x < 0 THEN <<x + LimbBase>> \o NatSubFrom(a, b, i + 1, 1)
         ELSE <<x>> \o NatSubFrom(a, b, i + 1, 0)

\* a - b, for a >= b
NatSub(a, b) == NatTrim(NatSubFrom(a, b, 1, 0))

RECURSIVE NatCmpFrom(_, _, _)
NatCmpFrom(a, b, i) ==
    IF i = 0 THEN 0
    ELSE IF a[i] > b[i] THEN 1
    ELSE IF a[i] < b[i] THEN -1
    ELSE NatCmpFrom(a, b, i - 1)

\* -1, 0 or 1 as a is below, equal to or above b
NatCmp(a, b) ==
    IF Len(a) > Len(b) THEN 1
    ELSE IF Len(a) < Len(b) THEN -1
    ELSE NatCmpFrom(a, b, Len(a))

RECURSIVE NatMulSmallFrom(_, _, _, _)
NatMulSmallFrom(a, k, i, carry) ==
    IF i > Len(a)
    THEN IF carry = 0 THEN << >> ELSE <<carry>>
    ELSE LET x == a[i] * k + carry IN
         <<x % LimbBase>> \o NatMulSmallFrom(a, k, i + 1, x \div LimbBase)

\* a * k, for k below LimbBase
NatMulSmall(a, k) == IF k = 0 THEN << >> ELSE NatMulSmallFrom(a, k, 1, 0)

NatShift(a) == IF a = << >> THEN << >> ELSE <<0>> \o a

RECURSIVE NatMul(_, _)
NatMul(a, b) ==
    IF b = << >> THEN << >>
    ELSE NatAdd(NatMulSmall(a, b[1]), NatShift(NatMul(a, Tail(b))))

\* The largest k in lo .. hi - 1 with b * k <= r, given b * lo <= r < b * hi.
RECURSIVE MaxDigit(_, _, _, _)
MaxDigit(b, r, lo, hi) ==
    IF hi - lo <= 1 THEN lo
    ELSE LET mid == (lo + hi) \div 2 IN
         IF NatCmp(NatMulSmall(b, mid), r) <= 0
         THEN MaxDigit(b, r, mid, hi) ELSE MaxDigit(b, r, lo, mid)

\* Long division of the limbs a[i ..] by b > 0: <<quotient, remainder>>.
RECURSIVE NatDivModFrom(_, _, _)
NatDivModFrom(a, b, i) ==
    IF i > Len(a) THEN << << >>, << >> >>
    ELSE LET up == NatDivModFrom(a, b, i + 1)
             r == NatTrim(<<a[i]>> \o up[2])
             d == MaxDigit(b, r, 0, LimbBase)
         IN  <<NatTrim(<<d>> \o up[1]), NatSub(r, NatMulSmall(b, d))>>

NatDiv(a, b) == NatDivModFrom(a, b, 1)[1]
NatMod(a, b) == NatDivModFrom(a, b, 1)[2]

\* 2^63 = 9223372036854775808 and 2^64 = 18446744073709551616, in limbs
Two63 == <<5808, 5477, 368, 3372, 922>>
Two64 == <<1616, 955, 737, 6744, 1844>>

Signed(neg, mag) == [neg |-> neg /\ mag # << >>, mag |-> mag]
SignedOf(n) == Signed(n < 0, NatOf(IF n < 0 THEN -n ELSE n))
SignedToInt(z) == IF z.neg THEN -NatToInt(z.mag) ELSE NatToInt(z.mag)
SignedNeg(z) == Signed(~z.neg, z.mag)

SignedAdd(a, b) ==
    IF a.neg = b.neg THEN Signed(a.neg, NatAdd(a.mag, b.mag))
    ELSE IF NatCmp(a.mag, b.mag) >= 0 THEN Signed(a.neg, NatSub(a.mag, b.mag))
    ELSE Signed(b.neg, NatSub(b.mag, a.mag))

SignedSub(a, b) == SignedAdd(a, SignedNeg(b))
SignedMul(a, b) == Signed(a.neg # b.neg, NatMul(a.mag, b.mag))

\* Division truncating toward zero, as Rust's / on integers (b # 0)
SignedDiv(a, b) == Signed(a.neg # b.neg, NatDiv(a.mag, b.mag))

SignedLess(a, b) == SignedSub(a, b).neg

\* z modulo n > 0, in 0 .. n - 1, as a natural
SignedFloorMod(z, n) ==
    LET r == NatMod(z.mag, n) IN
    IF ~z.neg \/ r = << >> THEN r ELSE NatSub(n, r)

\* 2^31 = 2147483648 and 2^32 = 4294967296, in limbs
Two31 == <<3648, 4748, 21>>
Two32 == <<7296, 9496, 42>>

U64Max == NatSub(Two64, NatOf(1))
I64Min == Signed(TRUE, Two63)
I64Max == Signed(FALSE, NatSub(Two63, NatOf(1)))

InI64(z) == ~SignedLess(z, I64Min) /\ ~SignedLess(I64Max, z)

\* The i64 with the bits of z: z modulo 2^64 taken in -2^63 .. 2^63 - 1
\* (what `as i64` gives for a u64, and what wrapping arithmetic gives).
WrapI64(z) ==
    SignedSub(
        Signed(FALSE, SignedFloorMod(SignedAdd(z, Signed(FALSE, Two63)), Two64)),
        Signed(FALSE, Two63))

\* The i32 with the low 32 bits of z (what `as i32` gives for an i64).
WrapI32(z) ==
    SignedSub(
        Signed(FALSE, SignedFloorMod(SignedAdd(z, Signed(FALSE, Two31)), Two32)),
        Signed(FALSE, Two31))

\* A computation that panicked: the transaction is aborted.
Panic == [panic |-> TRUE]

\* An i64 +, -, * or negation whose exact result is z.  With overflow checks
\* compiled in it panics when z does not fit, without them the result wraps.
I64Arith(z, overflow_checks) ==
    IF InI64(z) THEN [panic |-> FALSE, value |-> z]
    ELSE IF overflow_checks THEN Panic
    ELSE [panic |-> FALSE, value |-> WrapI64(z)]

\* A u64 + or * whose exact result is the natural n: it fits, or it panics
\* (overflow checks compiled in), or it wraps modulo 2^64.
U64Arith(n, overflow_checks) ==
    IF NatCmp(n, Two64) < 0 THEN [panic |-> FALSE, value |-> n]
    ELSE IF overflow_checks THEN Panic
    ELSE [panic |-> FALSE, value |-> NatMod(n, Two64)]

-----------------------------------------------------------------------------
(* lib.rs: enums, records, responses                                       *)

Directions == {"Up", "Down", "Over", "Under", "Yes", "No"}
SignalStatuses == {"Open", "Resolved", "Cancelled"}
SignalResults == {"Win", "Lose", "Push"}

DefaultStats(strategy_id) ==
    [strategy_id |-> strategy_id, total_signals |-> 0, winning_signals |-> 0,
     losing_signals |-> 0, push_signals |-> 0, win_rate_bps |-> 0,
     avg_pnl_bps |-> 0, total_pnl_bps |-> 0, followers |-> 0]

\* impl From<AgentHubError> for AgentHubResponse: the error becomes an Error
\* response; the message is kept as the error variant (Display is one-to-one).
ErrorResponse(e) == [type |-> "Error", message |-> e]

\* what a handler hands back: the new chain state, the response, the messages sent
Result(s, resp, out) == [state |-> s, response |-> resp, out |-> out]

\* ChainId::to_string / str::parse::<ChainId>: a chain id prints as its hash
\* string, and only such strings parse.
ChainIdToString(c) == c
ParseChainId(str) == IF str \in Chains THEN Some(str) ELSE None

-----------------------------------------------------------------------------
(* state.rs: AgentHubState after instantiate                               *)

\* instantiate: the hub chain id is stored when the argument parses; the three
\* counters start at 1; every map is empty.
instantiate(hub_chain_id) ==
    [hub_chain_id |-> ParseChainId(hub_chain_id),
     strategists |-> EmptyMap,
     strategies |-> EmptyMap,
     signals |-> EmptyMap,
     signals_by_strategy |-> EmptyMap,
     strategy_stats |-> EmptyMap,
     followers |-> EmptyMap,
     follower_count |-> EmptyMap,
     next_strategy_id |-> 1,
     next_signal_id |-> 1,
     subscription_offers |-> EmptyMap,
     subscriptions |-> EmptyMap,
     subscriptions_by_subscriber |-> EmptyMap,
     subscribers_by_strategist |-> EmptyMap,
     next_subscription_id |-> 1]

-----------------------------------------------------------------------------
(* contract.rs: registration                                               *)

register_strategist(s, now, owner, display_name) ==
    IF ContainsKey(s.strategists, owner)
    THEN Result(s, ErrorResponse("StrategistAlreadyRegistered"), {})
    ELSE Result(
        [s EXCEPT !.strategists = Insert(@, owner,
            [owner |-> owner, display_name |-> display_name, created_at |-> now])],
        [type |-> "StrategistRegistered", owner |-> owner], {})

\* create_strategy taking its id from the counter before it checks the caller
create_strategy_counting_first(s, now, owner, name, description, market_kind, base_market, is_public, is_ai_controlled) ==
    LET id == s.next_strategy_id
        counted == [s EXCEPT !.next_strategy_id = id + 1]
    IN  IF ~ContainsKey(s.strategists, owner)
        THEN Result(counted, ErrorResponse("StrategistNotRegistered"), {})
        ELSE Result(
            [counted EXCEPT
                !.strategies = Insert(@, id,
                    [id |-> id, owner |-> owner, name |-> name,
                     description |-> description, market_kind |-> market_kind,
                     base_market |-> base_market, is_public |-> is_public,
                     is_ai_controlled |-> is_ai_controlled, created_at |-> now]),
                !.signals_by_strategy = Insert(@, id, << >>),
                !.strategy_stats = Insert(@, id, DefaultStats(id)),
                !.follower_count = Insert(@, id, 0)],
            [type |-> "StrategyCreated", id |-> id], {})

create_strategy(s, now, owner, name, description, market_kind, base_market, is_public, is_ai_controlled) ==
    IF ~ContainsKey(s.strategists, owner)
    THEN Result(s, ErrorResponse("StrategistNotRegistered"), {})
    ELSE LET id == s.next_strategy_id IN
        Result(
            [s EXCEPT
                !.next_strategy_id = id + 1,
                !.strategies = Insert(@, id,
                    [id |-> id, owner |-> owner, name |-> name,
                     description |-> description, market_kind |-> market_kind,
                     base_market |-> base_market, is_public |-> is_public,
                     is_ai_controlled |-> is_ai_controlled, created_at |-> now]),
                !.signals_by_strategy = Insert(@, id, << >>),
                !.strategy_stats = Insert(@, id, DefaultStats(id)),
                !.follower_count = Insert(@, id, 0)],
            [type |-> "StrategyCreated", id |-> id], {})

-----------------------------------------------------------------------------
(* contract.rs: StatsAggregator                                            *)

\* The loop of update_strategy_stats over signal_ids[i..]: acc is
\* <<total_signals, winning_signals, losing_signals, push_signals, total_pnl>>.
RECURSIVE FoldSignals(_, _, _, _)
FoldSignals(signals, signal_ids, i, acc) ==
    IF i > Len(signal_ids) THEN acc
    ELSE LET got == Get(signals, signal_ids[i]) IN
        IF IsSome(got) /\ Unwrap(got).status = "Resolved"
        THEN LET signal == Unwrap(got) IN
            FoldSignals(signals, signal_ids, i + 1,
                <<acc[1] + 1,
                  acc[2] + (IF signal.result = Some("Win") THEN 1 ELSE 0),
                  acc[3] + (IF signal.result = Some("Lose") THEN 1 ELSE 0),
                  acc[4] + (IF signal.result = Some("Push") THEN 1 ELSE 0),
                  acc[5] + UnwrapOr(signal.pnl_bps, 0)>>)
        ELSE FoldSignals(signals, signal_ids, i + 1, acc)

\* The recomputation with the win rate taken over the decided signals only
\* (wins and losses), pushes left out of the denominator.
ComputeStatsOverDecided(s, strategy_id) ==
    LET signal_ids == UnwrapOr(Get(s.signals_by_strategy, strategy_id), << >>)
        acc == FoldSignals(s.signals, signal_ids, 1, <<0, 0, 0, 0, 0>>)
    IN  [strategy_id |-> strategy_id,
         total_signals |-> acc[1],
         winning_signals |-> acc[2],
         losing_signals |-> acc[3],
         push_signals |-> acc[4],
         win_rate_bps |-> IF acc[2] + acc[3] > 0
                          THEN (acc[2] * 10000) \div (acc[2] + acc[3]) ELSE 0,
         avg_pnl_bps |-> IF acc[1] > 0 THEN TruncDiv(acc[5], acc[1]) ELSE 0,
         total_pnl_bps |-> acc[5],
         followers |-> UnwrapOr(Get(s.follower_count, strategy_id), 0)]

\* The StrategyStats that update_strategy_stats builds for strategy_id.  The
\* counts are bounded by the number of stored signals, far below the u64 values
\* at which winning_signals * 10000 would wrap.
ComputeStats(s, strategy_id) ==
    LET signal_ids == UnwrapOr(Get(s.signals_by_strategy, strategy_id), << >>)
        acc == FoldSignals(s.signals, signal_ids, 1, <<0, 0, 0, 0, 0>>)
        total_signals == acc[1]
        winning_signals == acc[2]
        total_pnl == acc[5]
    IN  [strategy_id |-> strategy_id,
         total_signals |-> total_signals,
         winning_signals |-> winning_signals,
         losing_signals |-> acc[3],
         push_signals |-> acc[4],
         win_rate_bps |-> IF total_signals > 0
                          THEN (winning_signals * 10000) \div total_signals ELSE 0,
         avg_pnl_bps |-> IF total_signals > 0
                         THEN TruncDiv(total_pnl, total_signals) ELSE 0,
         total_pnl_bps |-> total_pnl,
         followers |-> UnwrapOr(Get(s.follower_count, strategy_id), 0)]

\* `total_pnl += signal.pnl_bps.unwrap_or(0)` over pnls[i..], in i64: the
\* addition overflows as the build decides.
RECURSIVE TotalPnlFrom(_, _, _, _)
TotalPnlFrom(pnls, i, total_pnl, overflow_checks) ==
    IF i > Len(pnls) THEN [panic |-> FALSE, value |-> total_pnl]
    ELSE LET sum == I64Arith(SignedAdd(total_pnl, pnls[i]), overflow_checks) IN
         IF sum.panic THEN Panic
         ELSE TotalPnlFrom(pnls, i + 1, sum.value, overflow_checks)

\* The PnL fields that update_strategy_stats stores, on 64-bit values: pnls is
\* the pnl_bps.unwrap_or(0) of the strategy's Resolved signals, in the order of
\* its signal-id list.  avg_pnl_bps is (total_pnl / total_signals as i64) as i32.
update_strategy_stats_i64(pnls, overflow_checks) ==
    LET total_signals == Len(pnls)
        total_pnl == TotalPnlFrom(pnls, 1, SignedOf(0), overflow_checks)
    IN  IF total_pnl.panic THEN Panic
        ELSE [panic |-> FALSE,
              total_signals |-> total_signals,
              avg_pnl_bps |-> IF total_signals > 0
                              THEN WrapI32(SignedDiv(total_pnl.value, SignedOf(total_signals)))
                              ELSE SignedOf(0),
              total_pnl_bps |-> total_pnl.value]

update_strategy_stats(s, strategy_id) ==
    Result([s EXCEPT !.strategy_stats = Insert(@, strategy_id, ComputeStats(s, strategy_id))],
           [type |-> "Ok"], {})

-----------------------------------------------------------------------------
(* contract.rs: SignalLedger                                               *)

\* publish_signal without its validation of the confidence
publish_signal_unvalidated(s, now, owner, strategy_id, direction, horizon_secs, confidence_bps, entry_value) ==
    IF ~ContainsKey(s.strategies, strategy_id)
    THEN Result(s, ErrorResponse("StrategyNotFound"), {})
    ELSE IF s.strategies[strategy_id].owner # owner
    THEN Result(s, ErrorResponse("NotAuthorized"), {})
    ELSE LET id == s.next_signal_id
             signal_ids == UnwrapOr(Get(s.signals_by_strategy, strategy_id), << >>)
         IN Result(
                [s EXCEPT
                    !.next_signal_id = id + 1,
                    !.signals = Insert(@, id,
                        [id |-> id, strategy_id |-> strategy_id, created_at |-> now,
                         expires_at |-> AddMicros(now, SecsAsMicros(horizon_secs)),
                         direction |-> direction, entry_value |-> entry_value,
                         confidence_bps |-> confidence_bps, status |-> "Open",
                         result |-> None, pnl_bps |-> None, resolved_value |-> None]),
                    !.signals_by_strategy = Insert(@, strategy_id, Append(signal_ids, id))],
                [type |-> "SignalPublished", id |-> id], {})

\* The expires_at of publish_signal on 64-bit values, now and horizon_secs as
\* limbs: now.micros() + (horizon_secs * 1_000_000), both operations in u64.
expires_at_u64(now, horizon_secs, overflow_checks) ==
    LET horizon_micros == U64Arith(NatMul(horizon_secs, NatOf(1000000)), overflow_checks) IN
    IF horizon_micros.panic THEN Panic
    ELSE U64Arith(NatAdd(now, horizon_micros.value), overflow_checks)

\* publish_signal without its check of the strategy's owner
publish_signal_by_anyone(s, now, owner, strategy_id, direction, horizon_secs, confidence_bps, entry_value) ==
    IF confidence_bps > 10000
    THEN Result(s, ErrorResponse("InvalidConfidence"), {})
    ELSE IF ~ContainsKey(s.strategies, strategy_id)
    THEN Result(s, ErrorResponse("StrategyNotFound"), {})
    ELSE publish_signal_unvalidated(s, now, s.strategies[strategy_id].owner, strategy_id,
                                    direction, horizon_secs, confidence_bps, entry_value)

\* publish_signal without the advance of the signal-id counter
publish_signal_reusing_id(s, now, owner, strategy_id, direction, horizon_secs, confidence_bps, entry_value) ==
    IF confidence_bps > 10000
    THEN Result(s, ErrorResponse("InvalidConfidence"), {})
    ELSE IF ~ContainsKey(s.strategies, strategy_id)
    THEN Result(s, ErrorResponse("StrategyNotFound"), {})
    ELSE IF s.strategies[strategy_id].owner # owner
    THEN Result(s, ErrorResponse("NotAuthorized"), {})
    ELSE LET id == s.next_signal_id
             signal_ids == UnwrapOr(Get(s.signals_by_strategy, strategy_id), << >>)
         IN Result(
                [s EXCEPT
                    !.signals = Insert(@, id,
                        [id |-> id, strategy_id |-> strategy_id, created_at |-> now,
                         expires_at |-> AddMicros(now, SecsAsMicros(horizon_secs)),
                         direction |-> direction, entry_value |-> entry_value,
                         confidence_bps |-> confidence_bps, status |-> "Open",
                         result |-> None, pnl_bps |-> None, resolved_value |-> None]),
                    !.signals_by_strategy = Insert(@, strategy_id, Append(signal_ids, id))],
                [type |-> "SignalPublished", id |-> id], {})

publish_signal(s, now, owner, strategy_id, direction, horizon_secs, confidence_bps, entry_value) ==
    IF confidence_bps > 10000
    THEN Result(s, ErrorResponse("InvalidConfidence"), {})
    ELSE IF ~ContainsKey(s.strategies, strategy_id)
    THEN Result(s, ErrorResponse("StrategyNotFound"), {})
    ELSE IF s.strategies[strategy_id].owner # owner
    THEN Result(s, ErrorResponse("NotAuthorized"), {})
    ELSE LET id == s.next_signal_id
             signal == [id |-> id,
                        strategy_id |-> strategy_id,
                        created_at |-> now,
                        expires_at |-> AddMicros(now, SecsAsMicros(horizon_secs)),
                        direction |-> direction,
                        entry_value |-> entry_value,
                        confidence_bps |-> confidence_bps,
                        status |-> "Open",
                        result |-> None,
                        pnl_bps |-> None,
                        resolved_value |-> None]
             signal_ids == UnwrapOr(Get(s.signals_by_strategy, strategy_id), << >>)
         IN Result(
                [s EXCEPT
                    !.next_signal_id = id + 1,
                    !.signals = Insert(@, id, signal),
                    !.signals_by_strategy = Insert(@, strategy_id, Append(signal_ids, id))],
                [type |-> "SignalPublished", id |-> id], {})

\* calculate_signal_result on 64-bit values: entry is signal.entry_value
\* .unwrap_or(0) and resolved_value the argument, both u64 as limbs.  The
\* outcome is a panic or [result, pnl_bps], pnl_bps an i64 as a signed value.
\*   (resolved_value as i64 - entry as i64) * 10000 / entry as i64
\* `as i64` reinterprets the bits; the subtraction, the multiplication and the
\* negation overflow as the build decides (overflow_checks); a division whose
\* quotient does not fit (i64::MIN / -1) panics in every build.
calculate_signal_result_i64(direction, entry, resolved_value, overflow_checks) ==
    IF entry = << >> \/ resolved_value = << >>
    THEN [panic |-> FALSE, result |-> "Push", pnl_bps |-> SignedOf(0)]
    ELSE LET e == WrapI64(Signed(FALSE, entry))
             r == WrapI64(Signed(FALSE, resolved_value))
             difference == I64Arith(SignedSub(r, e), overflow_checks)
         IN
         IF difference.panic THEN Panic
         ELSE LET product == I64Arith(SignedMul(difference.value, SignedOf(10000)),
                                      overflow_checks) IN
         IF product.panic THEN Panic
         ELSE LET pnl_bps == SignedDiv(product.value, e) IN
         IF ~InI64(pnl_bps) THEN Panic
         ELSE LET down == direction \in {"Down", "Under", "No"}
                  cmp == NatCmp(resolved_value, entry)
                  result ==
                     IF ~down
                     THEN IF cmp > 0 THEN "Win" ELSE IF cmp < 0 THEN "Lose" ELSE "Push"
                     ELSE IF cmp < 0 THEN "Win" ELSE IF cmp > 0 THEN "Lose" ELSE "Push"
                  adjusted_pnl ==
                     IF down THEN I64Arith(SignedNeg(pnl_bps), overflow_checks)
                     ELSE [panic |-> FALSE, value |-> pnl_bps]
              IN
              IF adjusted_pnl.panic THEN Panic
              ELSE [panic |-> FALSE, result |-> result, pnl_bps |-> adjusted_pnl.value]

\* <<result, pnl_bps>> of a signal resolved at resolved_value, for the values
\* the chains of the model hold: entry and resolved_value below 2^17, for which
\* the casts change nothing and no step of the computation overflows, so that
\* plain integers compute what calculate_signal_result_i64 does in every build.
calculate_signal_result(signal, resolved_value) ==
    LET entry == UnwrapOr(signal.entry_value, 0) IN
    IF entry = 0 \/ resolved_value = 0 THEN <<"Push", 0>>
    ELSE LET pnl_bps == TruncDiv((resolved_value - entry) * 10000, entry)
             down == signal.direction \in {"Down", "Under", "No"}
             result ==
                IF ~down
                THEN IF resolved_value > entry THEN "Win"
                     ELSE IF resolved_value < entry THEN "Lose" ELSE "Push"
                ELSE IF resolved_value < entry THEN "Win"
                     ELSE IF resolved_value > entry THEN "Lose" ELSE "Push"
             adjusted_pnl == IF down THEN -pnl_bps ELSE pnl_bps
         IN  <<result, adjusted_pnl>>

\* resolve_signal without its "signal is open" check
resolve_signal_unchecked(s, signal_id, resolved_value) ==
    IF ~ContainsKey(s.signals, signal_id)
    THEN Result(s, ErrorResponse("SignalNotFound"), {})
    ELSE LET signal == s.signals[signal_id]
             rp == calculate_signal_result(signal, resolved_value)
             updated == [signal EXCEPT
                            !.status = "Resolved",
                            !.result = Some(rp[1]),
                            !.pnl_bps = Some(rp[2]),
                            !.resolved_value = Some(resolved_value)]
             stored == [s EXCEPT !.signals = Insert(@, signal_id, updated)]
         IN Result(update_strategy_stats(stored, signal.strategy_id).state,
                   [type |-> "SignalResolved", id |-> signal_id,
                    result |-> rp[1], pnl_bps |-> rp[2]], {})

resolve_signal(s, signal_id, resolved_value) ==
    IF ~ContainsKey(s.signals, signal_id)
    THEN Result(s, ErrorResponse("SignalNotFound"), {})
    ELSE IF s.signals[signal_id].status # "Open"
    THEN Result(s, ErrorResponse("SignalAlreadyResolved"), {})
    ELSE LET signal == s.signals[signal_id]
             rp == calculate_signal_result(signal, resolved_value)
             updated == [signal EXCEPT
                            !.status = "Resolved",
                            !.result = Some(rp[1]),
                            !.pnl_bps = Some(rp[2]),
                            !.resolved_value = Some(resolved_value)]
             stored == [s EXCEPT !.signals = Insert(@, signal_id, updated)]
         IN Result(update_strategy_stats(stored, signal.strategy_id).state,
                   [type |-> "SignalResolved", id |-> signal_id,
                    result |-> rp[1], pnl_bps |-> rp[2]], {})

cancel_signal(s, owner, signal_id) ==
    IF ~ContainsKey(s.signals, signal_id)
    THEN Result(s, ErrorResponse("SignalNotFound"), {})
    ELSE IF ~ContainsKey(s.strategies, s.signals[signal_id].strategy_id)
    THEN Result(s, ErrorResponse("StrategyNotFound"), {})
    ELSE IF s.strategies[s.signals[signal_id].strategy_id].owner # owner
    THEN Result(s, ErrorResponse("NotAuthorized"), {})
    ELSE IF s.signals[signal_id].status # "Open"
    THEN Result(s, ErrorResponse("SignalNotOpen"), {})
    ELSE Result([s EXCEPT !.signals[signal_id].status = "Cancelled"],
                [type |-> "SignalCancelled", id |-> signal_id], {})

-----------------------------------------------------------------------------
(* contract.rs: FollowerRegistry                                           *)

follow_strategy(s, now, follower_owner, strategy_id, auto_copy, max_exposure_units) ==
    LET key == <<strategy_id, follower_owner>> IN
    IF ~ContainsKey(s.strategies, strategy_id)
    THEN Result(s, ErrorResponse("StrategyNotFound"), {})
    ELSE IF ContainsKey(s.followers, key)
    THEN Result(s, ErrorResponse("AlreadyFollowing"), {})
    ELSE LET count == UnwrapOr(Get(s.follower_count, strategy_id), 0)
             stats == UnwrapOr(Get(s.strategy_stats, strategy_id), DefaultStats(0))
         IN Result(
                [s EXCEPT
                    !.followers = Insert(@, key,
                        [strategy_id |-> strategy_id, follower |-> follower_owner,
                         auto_copy |-> auto_copy,
                         max_exposure_units |-> max_exposure_units,
                         created_at |-> now]),
                    !.follower_count = Insert(@, strategy_id, count + 1),
                    !.strategy_stats = Insert(@, strategy_id,
                        [stats EXCEPT !.followers = count + 1])],
                [type |-> "Followed", strategy_id |-> strategy_id], {})

\* unfollow_strategy without the decrement of the follower counter
unfollow_strategy_keeping_count(s, follower_owner, strategy_id) ==
    LET key == <<strategy_id, follower_owner>> IN
    IF ~ContainsKey(s.followers, key)
    THEN Result(s, ErrorResponse("NotFollowing"), {})
    ELSE Result([s EXCEPT !.followers = Remove(@, key)],
                [type |-> "Unfollowed", strategy_id |-> strategy_id], {})

unfollow_strategy(s, follower_owner, strategy_id) ==
    LET key == <<strategy_id, follower_owner>> IN
    IF ~ContainsKey(s.followers, key)
    THEN Result(s, ErrorResponse("NotFollowing"), {})
    ELSE LET count == UnwrapOr(Get(s.follower_count, strategy_id), 1)
             new_count == IF count >= 1 THEN count - 1 ELSE 0
             stats == UnwrapOr(Get(s.strategy_stats, strategy_id), DefaultStats(0))
         IN Result(
                [s EXCEPT
                    !.followers = Remove(@, key),
                    !.follower_count = Insert(@, strategy_id, new_count),
                    !.strategy_stats = Insert(@, strategy_id,
                        [stats EXCEPT !.followers = new_count])],
                [type |-> "Unfollowed", strategy_id |-> strategy_id], {})

-----------------------------------------------------------------------------
(* contract.rs: subscription methods                                       *)

\* const THIRTY_DAYS_MICROS: u64 = 30 * 24 * 60 * 60 * 1_000_000
THIRTY_DAYS_MICROS == SecsAsMicros(30 * 24 * 60 * 60)

\* format!("sub-{}-{}", sub_id, timestamp): two decimal numbers with a separator,
\* so two ids are equal exactly when both numbers are.
FormatSubscriptionId(sub_id, timestamp) == <<"sub", sub_id, timestamp>>
\* format!("pending-{}", timestamp)
FormatPendingId(timestamp) == <<"pending", timestamp>>

enable_subscription(s, owner, description) ==
    IF ~ContainsKey(s.strategists, owner)
    THEN Result(s, ErrorResponse("StrategistNotRegistered"), {})
    ELSE Result(
        [s EXCEPT !.subscription_offers = Insert(@, owner,
            [strategist |-> owner, description |-> description, is_enabled |-> TRUE])],
        [type |-> "SubscriptionEnabled", strategist |-> owner], {})

disable_subscription(s, owner) ==
    Result(
        IF ContainsKey(s.subscription_offers, owner)
        THEN [s EXCEPT !.subscription_offers[owner].is_enabled = FALSE]
        ELSE s,
        [type |-> "SubscriptionDisabled", strategist |-> owner], {})

\* The ids of the subscriber's list, in order, whose record exists, names
\* strategist and is active (the scan of subscribe and unsubscribe).
ActiveSubIds(s, subscriber, strategist) ==
    LET existing_subs == UnwrapOr(Get(s.subscriptions_by_subscriber, subscriber), << >>) IN
    SelectSeq(existing_subs,
        LAMBDA sub_id : /\ ContainsKey(s.subscriptions, sub_id)
                        /\ s.subscriptions[sub_id].strategist = strategist
                        /\ s.subscriptions[sub_id].is_active)

subscribe_to_strategist(s, now, chain_id, subscriber, strategist, strategist_chain_id) ==
    IF ActiveSubIds(s, subscriber, strategist) # << >>
    THEN Result(s, ErrorResponse("AlreadySubscribed"), {})
    ELSE LET timestamp == now
             target_chain == ParseChainId(strategist_chain_id)
         IN Result(s,
                [type |-> "Subscribed", subscription_id |-> FormatPendingId(timestamp)],
                IF IsSome(target_chain)
                THEN {[dest |-> Unwrap(target_chain),
                       msg |-> [type |-> "SubscriptionRequest",
                                subscriber |-> subscriber,
                                subscriber_chain_id |-> ChainIdToString(chain_id),
                                timestamp |-> timestamp]]}
                ELSE {})

\* unsubscribe_from_strategist deleting the record it found instead of marking it
unsubscribe_from_strategist_removing(s, subscriber, strategist) ==
    LET found == ActiveSubIds(s, subscriber, strategist) IN
    IF found = << >>
    THEN Result(s, ErrorResponse("NotSubscribed"), {})
    ELSE Result([s EXCEPT !.subscriptions = Remove(@, Head(found))],
                [type |-> "Unsubscribed", strategist |-> strategist], {})

unsubscribe_from_strategist(s, subscriber, strategist) ==
    LET found == ActiveSubIds(s, subscriber, strategist) IN
    IF found = << >>
    THEN Result(s, ErrorResponse("NotSubscribed"), {})
    ELSE Result([s EXCEPT !.subscriptions[Head(found)].is_active = FALSE],
                [type |-> "Unsubscribed", strategist |-> strategist], {})

-----------------------------------------------------------------------------
(* contract.rs: execute_message                                            *)

OnSignalResolved(s, message) ==
    Result(update_strategy_stats(s, message.strategy_id).state, None, {})

\* A variant of the handler below that takes the subscriber of the request for
\* the strategist whether a signer is available or not.
OnSubscriptionRequestIgnoringSigner(s, chain_id, signer, message) ==
    LET subscriber == message.subscriber
        timestamp == message.timestamp
        strategist == subscriber
        offer == Get(s.subscription_offers, strategist)
    IN  IF IsSome(offer) /\ Unwrap(offer).is_enabled
        THEN LET sub_id == s.next_subscription_id
                 subscription_id == FormatSubscriptionId(sub_id, timestamp)
                 end_timestamp == AddMicros(timestamp, THIRTY_DAYS_MICROS)
                 subscription ==
                    [id |-> subscription_id,
                     subscriber |-> subscriber,
                     subscriber_chain_id |-> message.subscriber_chain_id,
                     strategist |-> strategist,
                     strategist_chain_id |-> ChainIdToString(chain_id),
                     start_timestamp |-> timestamp,
                     end_timestamp |-> end_timestamp,
                     is_active |-> TRUE]
                 subs == UnwrapOr(Get(s.subscribers_by_strategist, strategist), << >>)
                 sub_chain == ParseChainId(message.subscriber_chain_id)
             IN Result(
                    [s EXCEPT
                        !.next_subscription_id = sub_id + 1,
                        !.subscriptions = Insert(@, subscription_id, subscription),
                        !.subscribers_by_strategist =
                            Insert(@, strategist, Append(subs, subscription_id))],
                    None,
                    IF IsSome(sub_chain)
                    THEN {[dest |-> Unwrap(sub_chain),
                           msg |-> [type |-> "SubscriptionConfirmed",
                                    subscription_id |-> subscription_id,
                                    strategist |-> strategist,
                                    strategist_chain_id |-> ChainIdToString(chain_id),
                                    end_timestamp |-> end_timestamp]]}
                    ELSE {})
        ELSE Result(s, None, {})

OnSubscriptionRequest(s, chain_id, signer, message) ==
    LET subscriber == message.subscriber
        timestamp == message.timestamp
        strategist == UnwrapOr(signer, subscriber)
        offer == Get(s.subscription_offers, strategist)
    IN  IF IsSome(offer) /\ Unwrap(offer).is_enabled
        THEN LET sub_id == s.next_subscription_id
                 subscription_id == FormatSubscriptionId(sub_id, timestamp)
                 end_timestamp == AddMicros(timestamp, THIRTY_DAYS_MICROS)
                 subscription ==
                    [id |-> subscription_id,
                     subscriber |-> subscriber,
                     subscriber_chain_id |-> message.subscriber_chain_id,
                     strategist |-> strategist,
                     strategist_chain_id |-> ChainIdToString(chain_id),
                     start_timestamp |-> timestamp,
                     end_timestamp |-> end_timestamp,
                     is_active |-> TRUE]
                 subs == UnwrapOr(Get(s.subscribers_by_strategist, strategist), << >>)
                 sub_chain == ParseChainId(message.subscriber_chain_id)
             IN Result(
                    [s EXCEPT
                        !.next_subscription_id = sub_id + 1,
                        !.subscriptions = Insert(@, subscription_id, subscription),
                        !.subscribers_by_strategist =
                            Insert(@, strategist, Append(subs, subscription_id))],
                    None,
                    IF IsSome(sub_chain)
                    THEN {[dest |-> Unwrap(sub_chain),
                           msg |-> [type |-> "SubscriptionConfirmed",
                                    subscription_id |-> subscription_id,
                                    strategist |-> strategist,
                                    strategist_chain_id |-> ChainIdToString(chain_id),
                                    end_timestamp |-> end_timestamp]]}
                    ELSE {})
        ELSE Result(s, None, {})

\* A variant of the handler below that drops a confirmation whose id is stored
\* already (what a deduplicating receiver would do).
OnSubscriptionConfirmedDeduplicated(s, now, chain_id, signer, message) ==
    IF ContainsKey(s.subscriptions, message.subscription_id)
    THEN Result(s, None, {})
    ELSE LET subscriber == UnwrapOr(signer, message.strategist)
             subs == UnwrapOr(Get(s.subscriptions_by_subscriber, subscriber), << >>)
         IN  Result(
                [s EXCEPT
                    !.subscriptions =
                        Insert(@, message.subscription_id,
                            [id |-> message.subscription_id,
                             subscriber |-> subscriber,
                             subscriber_chain_id |-> ChainIdToString(chain_id),
                             strategist |-> message.strategist,
                             strategist_chain_id |-> message.strategist_chain_id,
                             start_timestamp |-> now,
                             end_timestamp |-> message.end_timestamp,
                             is_active |-> TRUE]),
                    !.subscriptions_by_subscriber =
                        Insert(@, subscriber, Append(subs, message.subscription_id))],
                None, {})

\* A variant of the handler below that stores the record and leaves the
\* reverse index alone.
OnSubscriptionConfirmedUnindexed(s, now, chain_id, signer, message) ==
    Result(
        [s EXCEPT
            !.subscriptions =
                Insert(@, message.subscription_id,
                    [id |-> message.subscription_id,
                     subscriber |-> UnwrapOr(signer, message.strategist),
                     subscriber_chain_id |-> ChainIdToString(chain_id),
                     strategist |-> message.strategist,
                     strategist_chain_id |-> message.strategist_chain_id,
                     start_timestamp |-> now,
                     end_timestamp |-> message.end_timestamp,
                     is_active |-> TRUE])],
        None, {})

OnSubscriptionConfirmed(s, now, chain_id, signer, message) ==
    LET subscription_id == message.subscription_id
        strategist == message.strategist
        subscriber == UnwrapOr(signer, strategist)
        subscription ==
            [id |-> subscription_id,
             subscriber |-> subscriber,
             subscriber_chain_id |-> ChainIdToString(chain_id),
             strategist |-> strategist,
             strategist_chain_id |-> message.strategist_chain_id,
             start_timestamp |-> now,
             end_timestamp |-> message.end_timestamp,
             is_active |-> TRUE]
        subs == UnwrapOr(Get(s.subscriptions_by_subscriber, subscriber), << >>)
    IN  Result(
            [s EXCEPT
                !.subscriptions = Insert(@, subscription_id, subscription),
                !.subscriptions_by_subscriber =
                    Insert(@, subscriber, Append(subs, subscription_id))],
            None, {})

\* A variant of the handler below that keeps a signal it has already.
OnSignalBroadcastIfAbsent(s, message) ==
    IF ContainsKey(s.signals, message.signal.id)
    THEN Result(s, None, {})
    ELSE Result([s EXCEPT !.signals = Insert(@, message.signal.id, message.signal)], None, {})

OnSignalBroadcast(s, message) ==
    Result([s EXCEPT !.signals = Insert(@, message.signal.id, message.signal)], None, {})

execute_message(s, now, chain_id, signer, message) ==
    CASE message.type = "SignalResolved" -> OnSignalResolved(s, message)
      [] message.type = "SubscriptionRequest" ->
            OnSubscriptionRequest(s, chain_id, signer, message)
      [] message.type = "SubscriptionConfirmed" ->
            OnSubscriptionConfirmed(s, now, chain_id, signer, message)
      [] message.type = "SignalBroadcast" -> OnSignalBroadcast(s, message)

-----------------------------------------------------------------------------
(* contract.rs: execute_operation                                          *)

execute_operation(s, now, chain_id, signer, operation) ==
    IF signer = None
    THEN Result(s, ErrorResponse("NotAuthenticated"), {})
    ELSE LET owner == Unwrap(signer) IN
        CASE operation.type = "RegisterStrategist" ->
                register_strategist(s, now, owner, operation.display_name)
          [] operation.type = "CreateAgentStrategy" ->
                create_strategy(s, now, owner, operation.name, operation.description,
                                operation.market_kind, operation.base_market,
                                operation.is_public, operation.is_ai_controlled)
          [] operation.type = "PublishSignal" ->
                publish_signal(s, now, owner, operation.strategy_id, operation.direction,
                               operation.horizon_secs, operation.confidence_bps,
                               operation.entry_value)
          [] operation.type = "ResolveSignal" ->
                resolve_signal(s, operation.signal_id, operation.resolved_value)
          [] operation.type = "CancelSignal" ->
                cancel_signal(s, owner, operation.signal_id)
          [] operation.type = "FollowStrategy" ->
                follow_strategy(s, now, owner, operation.strategy_id, operation.auto_copy,
                                operation.max_exposure_units)
          [] operation.type = "UnfollowStrategy" ->
                unfollow_strategy(s, owner, operation.strategy_id)
          [] operation.type = "UpdateStats" ->
                update_strategy_stats(s, operation.strategy_id)
          [] operation.type = "EnableSubscription" ->
                enable_subscription(s, owner, operation.description)
          [] operation.type = "DisableSubscription" ->
                disable_subscription(s, owner)
          [] operation.type = "SubscribeToStrategist" ->
                subscribe_to_strategist(s, now, chain_id, owner, operation.strategist,
                                        operation.strategist_chain_id)
          [] operation.type = "UnsubscribeFromStrategist" ->
                unsubscribe_from_strategist(s, owner, operation.strategist)

-----------------------------------------------------------------------------
(* The state machine                                                       *)

Signers == {None} \cup {Some(a) : a \in Accounts}

\* What authenticated_signer() returns while a message is handled: the contract
\* sends its messages with prepare_message(..).send_to(..), never forwarding the
\* signer of the sending operation, so there is none.
MessageSigners == {None}

Init ==
    /\ state = [c \in Chains |-> instantiate("c1")]
    /\ clock = [c \in Chains |-> Micros(0)]
    /\ network = {}
    /\ delivered = {}
    /\ subscribed = {}
    /\ cancelled = {}
    /\ calc = [op |-> "none"]

\* The counters and the subscriber lists stay within the bounds of the model.
WithinBounds(s) ==
    /\ s.next_strategy_id <= MaxStrategies + 1
    /\ s.next_signal_id <= MaxSignals + 1
    /\ s.next_subscription_id <= MaxSubscriptions + 1
    /\ \A a \in DOMAIN s.subscriptions_by_subscriber :
            Len(s.subscriptions_by_subscriber[a]) <= MaxIndexLen

\* One block step of chain c: an operation submitted by signer is executed to
\* completion, and the messages it prepared are sent.
Operate(c, signer, operation) ==
    LET r == execute_operation(state[c], clock[c], c, signer, operation) IN
    /\ WithinBounds(r.state)
    /\ state' = [state EXCEPT ![c] = r.state]
    /\ network' = network \cup r.out
    /\ subscribed' =
            IF r.response.type = "Subscribed"
            THEN subscribed \cup {[chain |-> c, subscriber |-> Unwrap(signer),
                                   strategist |-> operation.strategist,
                                   strategist_chain_id |-> operation.strategist_chain_id,
                                   timestamp |-> clock[c]]}
            ELSE subscribed
    /\ Cardinality({h \in subscribed' : h.chain = c}) <= MaxRequests
    /\ cancelled' =
            IF r.response.type = "SignalCancelled"
            THEN cancelled \cup {<<c, r.response.id>>}
            ELSE cancelled
    /\ UNCHANGED <<clock, delivered, calc>>

\* Chain c executes an inbound message to completion.  signer is what
\* authenticated_signer() returns while the message is handled.
Receive(c, signer, message) ==
    LET r == execute_message(state[c], clock[c], c, signer, message) IN
    /\ WithinBounds(r.state)
    /\ state' = [state EXCEPT ![c] = r.state]
    /\ network' = (network \ {[dest |-> c, msg |-> message]}) \cup r.out
    /\ UNCHANGED <<clock, subscribed, cancelled, calc>>

\* system_time() of chain c advances.
Tick(c) ==
    /\ clock[c][2] < MaxTime
    /\ clock' = [clock EXCEPT ![c] = AddMicros(@, Micros(1))]
    /\ UNCHANGED <<state, network, delivered, subscribed, cancelled, calc>>

RegisterStrategist(c, signer) ==
    /\ signer \in Signers
    /\ Operate(c, signer, [type |-> "RegisterStrategist", display_name |-> "name"])

CreateAgentStrategy(c, signer) ==
    /\ signer \in Signers
    /\ Operate(c, signer,
           [type |-> "CreateAgentStrategy", name |-> "S", description |-> "d",
            market_kind |-> "Crypto", base_market |-> "BTC-USD",
            is_public |-> TRUE, is_ai_controlled |-> TRUE])

PublishSignal(c, signer, strategy_id, direction, horizon_secs, confidence_bps, entry_value) ==
    /\ signer \in Signers
    /\ Operate(c, signer,
           [type |-> "PublishSignal", strategy_id |-> strategy_id,
            direction |-> direction, horizon_secs |-> horizon_secs,
            confidence_bps |-> confidence_bps, entry_value |-> entry_value])

ResolveSignal(c, signer, signal_id, resolved_value) ==
    /\ signer \in Signers
    /\ Operate(c, signer,
           [type |-> "ResolveSignal", signal_id |-> signal_id,
            resolved_value |-> resolved_value])

CancelSignal(c, signer, signal_id) ==
    /\ signer \in Signers
    /\ Operate(c, signer, [type |-> "CancelSignal", signal_id |-> signal_id])

FollowStrategy(c, signer, strategy_id) ==
    /\ signer \in Signers
    /\ Operate(c, signer,
           [type |-> "FollowStrategy", strategy_id |-> strategy_id,
            auto_copy |-> FALSE, max_exposure_units |-> 10])

UnfollowStrategy(c, signer, strategy_id) ==
    /\ signer \in Signers
    /\ Operate(c, signer, [type |-> "UnfollowStrategy", strategy_id |-> strategy_id])

UpdateStats(c, signer, strategy_id) ==
    /\ signer \in Signers
    /\ Operate(c, signer, [type |-> "UpdateStats", strategy_id |-> strategy_id])

EnableSubscription(c, signer) ==
    /\ signer \in Signers
    /\ Operate(c, signer, [type |-> "EnableSubscription", description |-> None])

DisableSubscription(c, signer) ==
    /\ signer \in Signers
    /\ Operate(c, signer, [type |-> "DisableSubscription"])

SubscribeToStrategist(c, signer, strategist, strategist_chain_id) ==
    /\ signer \in Signers
    /\ Operate(c, signer,
           [type |-> "SubscribeToStrategist", strategist |-> strategist,
            strategist_chain_id |-> strategist_chain_id])

UnsubscribeFromStrategist(c, signer, strategist) ==
    /\ signer \in Signers
    /\ Operate(c, signer, [type |-> "UnsubscribeFromStrategist", strategist |-> strategist])

\* A SignalResolved message reaches chain c.  No operation of the contract sends
\* one, so its content is an input; its handler does not read the signer.
ReceiveSignalResolved(c, signal_id, strategy_id, result, pnl_bps) ==
    /\ Receive(c, None,
            [type |-> "SignalResolved", signal_id |-> signal_id,
             strategy_id |-> strategy_id, result |-> result, pnl_bps |-> pnl_bps])
    /\ UNCHANGED delivered

\* A SignalBroadcast message reaches chain c.  No operation of the contract sends
\* one, so the embedded Signal is an input; its handler does not read the signer.
ReceiveSignalBroadcast(c, signal) ==
    /\ Receive(c, None,
            [type |-> "SignalBroadcast", signal |-> signal, strategy_name |-> "S",
             strategist |-> "a1"])
    /\ UNCHANGED delivered

\* The first delivery of message m of the network to its destination chain.
Deliver(m, signer) ==
    /\ m \in network
    /\ Receive(m.dest, signer, m.msg)
    /\ delivered' = delivered \cup {m}

\* The transport delivers at least once: message m, delivered before, is
\* delivered again.
DeliverAgain(m, signer) ==
    /\ m \in delivered
    /\ Receive(m.dest, signer, m.msg)
    /\ UNCHANGED delivered

\* Some message of the network is delivered, in any order.
DeliverSome ==
    /\ network # {}
    /\ \E m \in network, signer \in MessageSigners : Deliver(m, signer)

\* Some message is delivered a further time.
DeliverSomeAgain ==
    /\ delivered # {}
    /\ \E m \in delivered, signer \in MessageSigners : DeliverAgain(m, signer)

-----------------------------------------------------------------------------
(* Spec: the signal ledger and the statistics of one chain                 *)

LedgerChains == {"c1"}
StrategyIds == 1 .. (MaxStrategies + 1)
SignalIds == 1 .. (MaxSignals + 1)
PublishDirections == {"Up", "Down"}
HorizonValues == {300}
ConfidenceValues == {8000, 10001}
EntryValues == {Some(100)}
ResolvedValues == {0, 110}

\* The Signal records a SignalBroadcast may embed: any id, any status, with the
\* result fields all absent or all present.
BroadcastSignals ==
    {[id |-> id, strategy_id |-> strategy_id, created_at |-> Micros(0),
      expires_at |-> SecsAsMicros(300), direction |-> "Up",
      entry_value |-> Some(100), confidence_bps |-> 8000, status |-> status,
      result |-> o[1], pnl_bps |-> o[2], resolved_value |-> o[3]] :
        id \in 1 .. MaxSignals, strategy_id \in 1 .. MaxStrategies,
        status \in SignalStatuses,
        o \in {<<None, None, None>>, <<Some("Win"), Some(1000), Some(110)>>}}

Next ==
    \E c \in LedgerChains :
        \/ \E signer \in Signers : RegisterStrategist(c, signer)
        \/ \E signer \in Signers : CreateAgentStrategy(c, signer)
        \/ \E signer \in Signers, strategy_id \in StrategyIds,
              direction \in PublishDirections, horizon_secs \in HorizonValues,
              confidence_bps \in ConfidenceValues, entry_value \in EntryValues :
                PublishSignal(c, signer, strategy_id, direction, horizon_secs,
                              confidence_bps, entry_value)
        \/ \E signer \in Signers, signal_id \in SignalIds,
              resolved_value \in ResolvedValues :
                ResolveSignal(c, signer, signal_id, resolved_value)
        \/ \E signer \in Signers, signal_id \in SignalIds :
                CancelSignal(c, signer, signal_id)
        \/ \E signer \in Signers, strategy_id \in StrategyIds :
                UpdateStats(c, signer, strategy_id)
        \/ \E strategy_id \in StrategyIds :
                ReceiveSignalResolved(c, 1, strategy_id, "Win", 1000)
        \/ \E signal \in BroadcastSignals : ReceiveSignalBroadcast(c, signal)

Spec == Init /\ [][Next]_vars

-----------------------------------------------------------------------------
(* SubSpec: the subscription handshake between the chains                  *)

SubscriberChains == {"c1"}
StrategistChains == {"c2"}
ChainIdStrings == Chains \cup {"not-a-chain-id"}

SubNext ==
    \/ \E c \in StrategistChains, signer \in Signers : RegisterStrategist(c, signer)
    \/ \E c \in StrategistChains, signer \in Signers : EnableSubscription(c, signer)
    \/ \E c \in StrategistChains, signer \in Signers : DisableSubscription(c, signer)
    \/ \E c \in SubscriberChains, signer \in Signers, strategist \in Accounts,
          strategist_chain_id \in ChainIdStrings :
            SubscribeToStrategist(c, signer, strategist, strategist_chain_id)
    \/ \E c \in SubscriberChains, signer \in Signers, strategist \in Accounts :
            UnsubscribeFromStrategist(c, signer, strategist)
    \/ DeliverSome
    \/ DeliverSomeAgain
    \/ \E c \in SubscriberChains : Tick(c)

SubSpec == Init /\ [][SubNext]_vars

-----------------------------------------------------------------------------
(* Properties of the signal ledger and the statistics (Spec)               *)

Range(seq) == {seq[i] : i \in DOMAIN seq}

\* C1: once a stored signal is Resolved or Cancelled, no later operation or
\* message on that chain changes its status again.
C1_StatusIsTerminal ==
    [][\A c \in Chains : \A id \in DOMAIN state[c].signals :
          state[c].signals[id].status \in {"Resolved", "Cancelled"}
          => /\ id \in DOMAIN state'[c].signals
             /\ state'[c].signals[id].status = state[c].signals[id].status]_vars

\* C2: every stored signal has result, pnl_bps and resolved_value all None unless
\* its status is Resolved, and all three Some when its status is Resolved.
C2_ResultFieldsFollowStatus ==
    \A c \in Chains : \A id \in DOMAIN state[c].signals :
        LET signal == state[c].signals[id] IN
        IF signal.status = "Resolved"
        THEN IsSome(signal.result) /\ IsSome(signal.pnl_bps) /\ IsSome(signal.resolved_value)
        ELSE signal.result = None /\ signal.pnl_bps = None /\ signal.resolved_value = None

\* C3: the stored stats of every strategy satisfy
\* total_signals = winning_signals + losing_signals + push_signals.
C3_CountsAddUp ==
    \A c \in Chains : \A strategy_id \in DOMAIN state[c].strategy_stats :
        LET stats == state[c].strategy_stats[strategy_id] IN
        stats.total_signals =
            stats.winning_signals + stats.losing_signals + stats.push_signals

\* C4: the stored stats of every created strategy equal the recomputation from
\* the signals now stored under its signal-id list and its follower count.
C4_StatsNeverStale ==
    \A c \in Chains : \A strategy_id \in DOMAIN state[c].strategies :
        /\ strategy_id \in DOMAIN state[c].strategy_stats
        /\ state[c].strategy_stats[strategy_id] = ComputeStats(state[c], strategy_id)

\* C9: a resolve of an Open signal answers SignalResolved with the computed
\* (result, pnl_bps), stores Resolved with the same result, pnl_bps and the
\* resolved value, and the stats then stored for the owning strategy count the
\* signal: they are the recomputation over a signal-id list that holds its id.
C9_ResolveUpdatesSignalAndStats ==
    \A c \in Chains, a \in Accounts, resolved_value \in ResolvedValues :
        \A id \in DOMAIN state[c].signals :
            state[c].signals[id].status = "Open" =>
            LET r == execute_operation(state[c], clock[c], c, Some(a),
                        [type |-> "ResolveSignal", signal_id |-> id,
                         resolved_value |-> resolved_value])
                after == r.state.signals[id]
                strategy_id == state[c].signals[id].strategy_id
            IN  /\ r.response.type = "SignalResolved"
                /\ r.response.id = id
                /\ after.status = "Resolved"
                /\ after.result = Some(r.response.result)
                /\ after.pnl_bps = Some(r.response.pnl_bps)
                /\ after.resolved_value = Some(resolved_value)
                /\ strategy_id \in DOMAIN r.state.signals_by_strategy
                /\ id \in Range(r.state.signals_by_strategy[strategy_id])
                /\ r.state.strategy_stats[strategy_id] = ComputeStats(r.state, strategy_id)

\* C10: resolve of a signal that is not Open answers SignalAlreadyResolved and
\* leaves the signal and the stored stats as they were (the whole chain state,
\* and no message); resolve of an absent id answers SignalNotFound.
C10_ResolveRejectsNotOpen ==
    \A c \in Chains, a \in Accounts, id \in SignalIds, resolved_value \in ResolvedValues :
        LET r == execute_operation(state[c], clock[c], c, Some(a),
                    [type |-> "ResolveSignal", signal_id |-> id,
                     resolved_value |-> resolved_value])
        IN  /\ id \notin DOMAIN state[c].signals
                => r.response = ErrorResponse("SignalNotFound")
            /\ (id \in DOMAIN state[c].signals /\ state[c].signals[id].status # "Open")
                => /\ r.response = ErrorResponse("SignalAlreadyResolved")
                   /\ r.state.signals[id] = state[c].signals[id]
                   /\ r.state.strategy_stats = state[c].strategy_stats
                   /\ r.state = state[c]
                   /\ r.out = {}

\* C10 witness: a chain holds a Resolved signal and a Cancelled signal, both
\* published there, so that a second resolve meets each of the two cases.
C10_Witness ==
    \E c \in Chains : \E i, j \in DOMAIN state[c].signals :
        /\ state[c].signals[i].status = "Resolved"
        /\ state[c].signals[j].status = "Cancelled"
        /\ \E s \in DOMAIN state[c].signals_by_strategy :
                {i, j} \subseteq Range(state[c].signals_by_strategy[s])
        /\ execute_operation(state[c], clock[c], c, Some("a1"),
                [type |-> "ResolveSignal", signal_id |-> i, resolved_value |-> 110]).response
            = ErrorResponse("SignalAlreadyResolved")

-----------------------------------------------------------------------------
(* HandshakeSpec: the handshake with no unsubscribe and no disabled offer, *)
(* every message sent being delivered eventually                           *)

HandshakeNext ==
    \/ \E c \in StrategistChains, signer \in Signers : RegisterStrategist(c, signer)
    \/ \E c \in StrategistChains, signer \in Signers : EnableSubscription(c, signer)
    \/ \E c \in SubscriberChains, signer \in Signers, strategist \in Accounts,
          strategist_chain_id \in ChainIdStrings :
            SubscribeToStrategist(c, signer, strategist, strategist_chain_id)
    \/ DeliverSome
    \/ DeliverSomeAgain
    \/ \E c \in SubscriberChains : Tick(c)

\* Fairness: the transport delivers every message it was given.
HandshakeSpec == Init /\ [][HandshakeNext]_vars /\ WF_vars(DeliverSome)

-----------------------------------------------------------------------------
(* Properties of the subscription handshake                                *)

\* The subscribe calls the history can hold whose chain id argument parses.
CallSpace ==
    [chain : SubscriberChains, subscriber : Accounts, strategist : Accounts,
     strategist_chain_id : Chains, timestamp : {Micros(u) : u \in 0 .. MaxTime}]

\* The SubscriptionRequest that call h sent.
RequestOf(h) ==
    [dest |-> Unwrap(ParseChainId(h.strategist_chain_id)),
     msg |-> [type |-> "SubscriptionRequest", subscriber |-> h.subscriber,
              subscriber_chain_id |-> ChainIdToString(h.chain),
              timestamp |-> h.timestamp]]

OfferEnabled(c, strategist) ==
    /\ strategist \in DOMAIN state[c].subscription_offers
    /\ state[c].subscription_offers[strategist].is_enabled

\* The active records of chain c that the reverse index of subscriber leads to.
ActiveReachable(c, subscriber) ==
    {id \in Range(UnwrapOr(Get(state[c].subscriptions_by_subscriber, subscriber), << >>)) :
        id \in DOMAIN state[c].subscriptions /\ state[c].subscriptions[id].is_active}

\* C5: when A has called subscribe for strategist S on the chain where S's offer
\* is enabled, and the messages are delivered, A's chain eventually holds exactly
\* one active record reachable from A's reverse index, and it names S.
C5_HandshakeCompletes ==
    \A h \in CallSpace :
        (/\ h \in subscribed
         /\ RequestOf(h) \in network
         /\ OfferEnabled(RequestOf(h).dest, h.strategist))
        ~> (/\ Cardinality(ActiveReachable(h.chain, h.subscriber)) = 1
            /\ \A id \in ActiveReachable(h.chain, h.subscriber) :
                    state[h.chain].subscriptions[id].strategist = h.strategist)

\* The SubscriptionConfirmed m answers call h: it comes from the chain h named and
\* carries the id of the record that chain stored for h's request.
Answers(m, h) ==
    LET d == RequestOf(h).dest IN
    /\ m.dest = h.chain
    /\ m.msg.type = "SubscriptionConfirmed"
    /\ m.msg.strategist_chain_id = ChainIdToString(d)
    /\ m.msg.subscription_id \in DOMAIN state[d].subscriptions
    /\ state[d].subscriptions[m.msg.subscription_id].subscriber = h.subscriber
    /\ state[d].subscriptions[m.msg.subscription_id].subscriber_chain_id
            = ChainIdToString(h.chain)
    /\ state[d].subscriptions[m.msg.subscription_id].start_timestamp = h.timestamp

\* C6: once the SubscriptionConfirmed answering A's subscribe for S was processed
\* on A's chain, and with no unsubscribe since, another subscribe(A, S) answers
\* AlreadySubscribed and sends nothing.
C6_SecondSubscribeRejected ==
    \A h \in CallSpace :
        (h \in subscribed /\ \E m \in delivered : Answers(m, h)) =>
        LET r == execute_operation(state[h.chain], clock[h.chain], h.chain,
                    Some(h.subscriber),
                    [type |-> "SubscribeToStrategist", strategist |-> h.strategist,
                     strategist_chain_id |-> h.strategist_chain_id])
        IN  r.response = ErrorResponse("AlreadySubscribed") /\ r.out = {}

\* C7: once a stored Subscription record has is_active = FALSE, no later
\* operation or message on that chain sets it back to TRUE under the same id.
C7_InactiveIsTerminal ==
    [][\A c \in Chains : \A id \in DOMAIN state[c].subscriptions :
          ~state[c].subscriptions[id].is_active
          => /\ id \in DOMAIN state'[c].subscriptions
             /\ ~state'[c].subscriptions[id].is_active]_vars

\* The SubscriptionConfirmed messages that were delivered at least once.
ConfirmedDelivered == {m \in delivered : m.msg.type = "SubscriptionConfirmed"}

\* The number of entries of seq equal to x.
Occurrences(seq, x) == Cardinality({i \in DOMAIN seq : seq[i] = x})

\* C8 as stated: a further delivery of a SubscriptionConfirmed that was delivered
\* before creates a second record (the subscription map grows by one) and adds
\* an entry to the subscriber's reverse index.
C8_DuplicateCreatesSecondRecord ==
    \A m \in ConfirmedDelivered, signer \in MessageSigners :
        LET s == state[m.dest]
            r == execute_message(s, clock[m.dest], m.dest, signer, m.msg)
            subscriber == UnwrapOr(signer, m.msg.strategist)
            before == UnwrapOr(Get(s.subscriptions_by_subscriber, subscriber), << >>)
        IN  /\ Cardinality(DOMAIN r.state.subscriptions)
                    = Cardinality(DOMAIN s.subscriptions) + 1
            /\ Len(r.state.subscriptions_by_subscriber[subscriber]) = Len(before) + 1

\* C8, amended: a further delivery of a SubscriptionConfirmed that was delivered
\* before is not deduplicated, but creates no second record: the record stored
\* under the confirmation's id is overwritten in place (the map keeps its keys;
\* the record is rebuilt from the message, active, its start_timestamp the time
\* of this delivery), and the id is appended once more to the reverse index of the
\* account the handler takes for the subscriber, which then lists it repeatedly.
C8_DuplicateOverwritesAndReindexes ==
    \A m \in ConfirmedDelivered, signer \in MessageSigners :
        LET s == state[m.dest]
            r == execute_message(s, clock[m.dest], m.dest, signer, m.msg)
            id == m.msg.subscription_id
            subscriber == UnwrapOr(signer, m.msg.strategist)
            before == UnwrapOr(Get(s.subscriptions_by_subscriber, subscriber), << >>)
        IN  /\ id \in DOMAIN s.subscriptions
            /\ DOMAIN r.state.subscriptions = DOMAIN s.subscriptions
            /\ r.state.subscriptions[id] =
                    [id |-> id, subscriber |-> subscriber,
                     subscriber_chain_id |-> ChainIdToString(m.dest),
                     strategist |-> m.msg.strategist,
                     strategist_chain_id |-> m.msg.strategist_chain_id,
                     start_timestamp |-> clock[m.dest],
                     end_timestamp |-> m.msg.end_timestamp,
                     is_active |-> TRUE]
            /\ \A other \in DOMAIN s.subscriptions \ {id} :
                    r.state.subscriptions[other] = s.subscriptions[other]
            /\ Occurrences(before, id) >= 1
            /\ r.state.subscriptions_by_subscriber[subscriber] = Append(before, id)
            /\ r.out = {}

\* C8 witness: a SubscriptionConfirmed was delivered twice: the reverse index of
\* its chain lists its id twice, and the map holds one record under that id.
C8_Witness ==
    \E m \in ConfirmedDelivered :
        \E a \in DOMAIN state[m.dest].subscriptions_by_subscriber :
            /\ Occurrences(state[m.dest].subscriptions_by_subscriber[a],
                           m.msg.subscription_id) = 2
            /\ Cardinality(DOMAIN state[m.dest].subscriptions) = 1

\* What SubscribeToStrategist submitted by subscriber does to chain c now.
SubscribeBy(c, subscriber, strategist, strategist_chain_id) ==
    execute_operation(state[c], clock[c], c, Some(subscriber),
        [type |-> "SubscribeToStrategist", strategist |-> strategist,
         strategist_chain_id |-> strategist_chain_id])

\* C23: a subscribe call that is not answered AlreadySubscribed answers
\* Subscribed with the pending identifier of the current time, sends exactly one
\* message, the SubscriptionRequest{subscriber, subscriber chain, timestamp} to
\* the chain named by the strategist-chain argument, whatever the value of that
\* argument, and leaves the chain state (the subscription map and both reverse
\* indexes among it) unchanged.
C23_SubscribeOnlySendsRequest ==
    \A c \in SubscriberChains, subscriber \in Accounts, strategist \in Accounts,
       strategist_chain_id \in ChainIdStrings :
        LET r == SubscribeBy(c, subscriber, strategist, strategist_chain_id) IN
        r.response # ErrorResponse("AlreadySubscribed") =>
            /\ r.response = [type |-> "Subscribed",
                              subscription_id |-> FormatPendingId(clock[c])]
            /\ \E target \in ParseChainId(strategist_chain_id) :
                    r.out = {[dest |-> target,
                              msg |-> [type |-> "SubscriptionRequest",
                                       subscriber |-> subscriber,
                                       subscriber_chain_id |-> ChainIdToString(c),
                                       timestamp |-> clock[c]]]}
            /\ r.state.subscriptions = state[c].subscriptions
            /\ r.state.subscriptions_by_subscriber = state[c].subscriptions_by_subscriber
            /\ r.state.subscribers_by_strategist = state[c].subscribers_by_strategist
            /\ r.state = state[c]

\* C24: when the SubscriptionRequest of a subscribe call for strategist S is
\* received on a chain where S's offer is missing or disabled, it is dropped: the
\* chain state is unchanged (no record, no reverse-index entry, the counter not
\* advanced) and no message is sent.
C24_DisabledOfferDropsRequest ==
    \A h \in CallSpace :
        (h \in subscribed /\ ~OfferEnabled(RequestOf(h).dest, h.strategist)) =>
            \A signer \in MessageSigners :
                LET d == RequestOf(h).dest
                    r == execute_message(state[d], clock[d], d, signer, RequestOf(h).msg)
                IN  /\ r.state.subscriptions = state[d].subscriptions
                    /\ r.state.subscribers_by_strategist = state[d].subscribers_by_strategist
                    /\ r.state.next_subscription_id = state[d].next_subscription_id
                    /\ r.state = state[d]
                    /\ r.out = {}

\* C25: when the SubscriptionRequest of a subscribe call for strategist S is
\* received on a chain where S's offer is enabled, the chain advances its
\* subscription-id counter by one, stores under the token built from the previous
\* counter value and the request timestamp an active Subscription with
\* start_timestamp the request timestamp and end_timestamp 2,592,000 seconds of
\* microseconds later, appends the token to S's reverse index, and sends to the
\* requesting chain one SubscriptionConfirmed with that token and end_timestamp.
C25_EnabledOfferConfirms ==
    \A h \in CallSpace :
        (h \in subscribed /\ OfferEnabled(RequestOf(h).dest, h.strategist)) =>
            \A signer \in MessageSigners :
                LET d == RequestOf(h).dest
                    s == state[d]
                    r == execute_message(s, clock[d], d, signer, RequestOf(h).msg)
                    token == FormatSubscriptionId(s.next_subscription_id, h.timestamp)
                    end_timestamp == <<h.timestamp[1] + 2592000, h.timestamp[2]>>
                    before == UnwrapOr(Get(s.subscribers_by_strategist, h.strategist), << >>)
                IN  /\ r.state.next_subscription_id = s.next_subscription_id + 1
                    /\ token \in DOMAIN r.state.subscriptions
                    /\ r.state.subscriptions[token].is_active
                    /\ r.state.subscriptions[token].start_timestamp = h.timestamp
                    /\ r.state.subscriptions[token].end_timestamp = end_timestamp
                    /\ h.strategist \in DOMAIN r.state.subscribers_by_strategist
                    /\ r.state.subscribers_by_strategist[h.strategist] = Append(before, token)
                    /\ r.out = {[dest |-> h.chain,
                                  msg |-> [type |-> "SubscriptionConfirmed",
                                           subscription_id |-> token,
                                           strategist |-> r.state.subscriptions[token].strategist,
                                           strategist_chain_id |-> ChainIdToString(d),
                                           end_timestamp |-> end_timestamp]]}

\* C33: a SubscriptionRequest handled with no signer takes the subscriber it
\* names for the strategist, and one handled with a signer takes the signer: the
\* offer looked up is that account's (the request is dropped when that offer is
\* missing or disabled, whatever the other offers), and the record stored, the
\* reverse-index entry added and the SubscriptionConfirmed sent name it.
C33_StrategistFallsBackToSubscriber ==
    \A c \in StrategistChains, signer \in Signers, subscriber \in Accounts,
       origin \in SubscriberChains :
        LET s == state[c]
            message == [type |-> "SubscriptionRequest", subscriber |-> subscriber,
                        subscriber_chain_id |-> ChainIdToString(origin),
                        timestamp |-> clock[origin]]
            effective == IF signer = None THEN subscriber ELSE Unwrap(signer)
            r == execute_message(s, clock[c], c, signer, message)
            token == FormatSubscriptionId(s.next_subscription_id, clock[origin])
            before == UnwrapOr(Get(s.subscribers_by_strategist, effective), << >>)
        IN  IF OfferEnabled(c, effective)
            THEN /\ token \in DOMAIN r.state.subscriptions
                 /\ r.state.subscriptions[token].strategist = effective
                 /\ r.state.subscriptions[token].subscriber = subscriber
                 /\ effective \in DOMAIN r.state.subscribers_by_strategist
                 /\ r.state.subscribers_by_strategist[effective] = Append(before, token)
                 /\ \A a \in Accounts \ {effective} :
                        Get(r.state.subscribers_by_strategist, a)
                            = Get(s.subscribers_by_strategist, a)
                 /\ Cardinality(r.out) = 1
                 /\ \A m \in r.out :
                        /\ m.dest = origin
                        /\ m.msg.type = "SubscriptionConfirmed"
                        /\ m.msg.subscription_id = token
                        /\ m.msg.strategist = effective
            ELSE r.state = s /\ r.out = {}

\* A request of a call that named another account was accepted on the
\* subscriber's own offer while the named account's offer was not enabled: the
\* record, the index entry and the confirmation name the subscriber.
C33_Witness ==
    \E h \in subscribed, c \in StrategistChains :
        /\ h.strategist # h.subscriber
        /\ h.strategist_chain_id = ChainIdToString(c)
        /\ OfferEnabled(c, h.subscriber)
        /\ ~OfferEnabled(c, h.strategist)
        /\ \E id \in DOMAIN state[c].subscriptions :
                /\ state[c].subscriptions[id].subscriber = h.subscriber
                /\ state[c].subscriptions[id].strategist = h.subscriber
                /\ id \in Range(UnwrapOr(Get(state[c].subscribers_by_strategist,
                                              h.subscriber), << >>))
                /\ \E m \in network \cup delivered :
                        /\ m.msg.type = "SubscriptionConfirmed"
                        /\ m.msg.subscription_id = id
                        /\ m.msg.strategist = h.subscriber

\* C34: in every reachable state, for every pair of a subscriber and a
\* strategist, the subscriber's reverse index on a chain leads to at most one
\* active Subscription record of that chain naming that strategist.
C34_OneActiveRecordPerPair ==
    \A c \in Chains, subscriber \in Accounts, strategist \in Accounts :
        Cardinality({id \in ActiveReachable(c, subscriber) :
                        state[c].subscriptions[id].strategist = strategist}) <= 1

\* C26: when the SubscriptionConfirmed answering a subscribe call is received
\* (for the first time or again), the subscriber's chain stores under the token
\* of the message an active Subscription with strategist, strategist chain and
\* end_timestamp copied from the message and start_timestamp the chain's current
\* time, appends the token to the reverse index of the subscriber, leaves the
\* other records and index entries alone, and sends no message.
C26_ConfirmedStoresLocalRecord ==
    \A h \in CallSpace : \A m \in network \cup delivered :
        (h \in subscribed /\ Answers(m, h)) =>
            \A signer \in MessageSigners :
                LET c == h.chain
                    s == state[c]
                    r == execute_message(s, clock[c], c, signer, m.msg)
                    token == m.msg.subscription_id
                    before == UnwrapOr(Get(s.subscriptions_by_subscriber, h.subscriber), << >>)
                IN  /\ DOMAIN r.state.subscriptions = DOMAIN s.subscriptions \cup {token}
                    /\ r.state.subscriptions[token].id = token
                    /\ r.state.subscriptions[token].is_active
                    /\ r.state.subscriptions[token].strategist = m.msg.strategist
                    /\ r.state.subscriptions[token].strategist_chain_id
                            = m.msg.strategist_chain_id
                    /\ r.state.subscriptions[token].end_timestamp = m.msg.end_timestamp
                    /\ r.state.subscriptions[token].start_timestamp = clock[c]
                    /\ \A other \in DOMAIN s.subscriptions \ {token} :
                            r.state.subscriptions[other] = s.subscriptions[other]
                    /\ DOMAIN r.state.subscriptions_by_subscriber
                            = DOMAIN s.subscriptions_by_subscriber \cup {h.subscriber}
                    /\ r.state.subscriptions_by_subscriber[h.subscriber] = Append(before, token)
                    /\ \A other \in DOMAIN s.subscriptions_by_subscriber \ {h.subscriber} :
                            r.state.subscriptions_by_subscriber[other]
                                = s.subscriptions_by_subscriber[other]
                    /\ r.out = {}

\* C26 witness: the confirmation answering a subscribe call was received after
\* the subscriber chain's clock had advanced: the record stored under its token
\* is listed for the subscriber and starts later than the request was made.
C26_Witness ==
    \E h \in CallSpace : \E m \in delivered :
        /\ h \in subscribed
        /\ Answers(m, h)
        /\ m.msg.subscription_id \in DOMAIN state[h.chain].subscriptions
        /\ state[h.chain].subscriptions[m.msg.subscription_id].start_timestamp # h.timestamp
        /\ state[h.chain].subscriptions[m.msg.subscription_id].start_timestamp = clock[h.chain]
        /\ h.subscriber \in DOMAIN state[h.chain].subscriptions_by_subscriber
        /\ state[h.chain].subscriptions_by_subscriber[h.subscriber] = <<m.msg.subscription_id>>

\* C27: unsubscribe(subscriber, strategist) answers NotSubscribed and changes
\* nothing when the subscriber's reverse index leads to no active record naming
\* that strategist; otherwise it answers Unsubscribed and sets is_active to FALSE
\* on exactly one such record of its chain, changing nothing else; in both cases
\* it sends no message.
C27_UnsubscribeIsLocal ==
    \A c \in SubscriberChains, subscriber \in Accounts, strategist \in Accounts :
        LET s == state[c]
            r == execute_operation(s, clock[c], c, Some(subscriber),
                    [type |-> "UnsubscribeFromStrategist", strategist |-> strategist])
            reached == {id \in ActiveReachable(c, subscriber) :
                            s.subscriptions[id].strategist = strategist}
        IN  /\ r.out = {}
            /\ IF reached = {}
               THEN r.response = ErrorResponse("NotSubscribed") /\ r.state = s
               ELSE /\ r.response = [type |-> "Unsubscribed", strategist |-> strategist]
                    /\ \E id \in reached :
                            r.state = [s EXCEPT !.subscriptions[id].is_active = FALSE]

\* C27 witness: after an unsubscribe, the subscriber's chain holds an inactive
\* record whose token is still the token of an active record on the chain of
\* the strategist.
C27_Witness ==
    \E c \in SubscriberChains, d \in StrategistChains :
        \E id \in DOMAIN state[c].subscriptions \cap DOMAIN state[d].subscriptions :
            /\ ~state[c].subscriptions[id].is_active
            /\ state[d].subscriptions[id].is_active
            /\ network = {}

-----------------------------------------------------------------------------
(* Properties of cancel and publish (Spec)                                 *)

\* The owner of the strategy that the stored signal id belongs to, if any.
SignalOwner(s, id) ==
    LET strategy_id == s.signals[id].strategy_id IN
    IF ContainsKey(s.strategies, strategy_id)
    THEN Some(s.strategies[strategy_id].owner) ELSE None

\* What CancelSignal{signal_id} submitted by owner does to chain c now.
CancelBy(c, owner, signal_id) ==
    execute_operation(state[c], clock[c], c, Some(owner),
        [type |-> "CancelSignal", signal_id |-> signal_id])

\* C11: cancel by the strategy owner of a signal whose status is Resolved answers
\* SignalAlreadyResolved and leaves the signal (the whole chain state) unchanged.
C11_CancelResolvedAnswersAlreadyResolved ==
    \A c \in Chains : \A id \in DOMAIN state[c].signals :
        \A owner \in SignalOwner(state[c], id) :
            state[c].signals[id].status = "Resolved" =>
                /\ CancelBy(c, owner, id).response = ErrorResponse("SignalAlreadyResolved")
                /\ CancelBy(c, owner, id).state = state[c]

\* C12: cancel of an Open signal by the strategy owner succeeds and sets the status
\* to Cancelled, and at every later time a cancel of a signal that a cancel
\* succeeded on answers SignalNotOpen and leaves it Cancelled.
C12_CancelSucceedsOnce ==
    \A c \in Chains : \A id \in DOMAIN state[c].signals :
        \A owner \in SignalOwner(state[c], id) :
            LET r == CancelBy(c, owner, id) IN
            /\ state[c].signals[id].status = "Open" =>
                    /\ r.response = [type |-> "SignalCancelled", id |-> id]
                    /\ r.state.signals[id].status = "Cancelled"
            /\ <<c, id>> \in cancelled =>
                    /\ state[c].signals[id].status = "Cancelled"
                    /\ r.response = ErrorResponse("SignalNotOpen")
                    /\ r.state.signals[id].status = "Cancelled"

\* C13: cancel leaves the stored stats unchanged, and at every later time a
\* recompute of any strategy's stats does not count a signal that was cancelled:
\* it gives what it would give with that signal absent from the store.
C13_CancelledNeverCounts ==
    \A c \in Chains : \A id \in DOMAIN state[c].signals :
        /\ \A owner \in SignalOwner(state[c], id) :
                CancelBy(c, owner, id).state.strategy_stats = state[c].strategy_stats
        /\ <<c, id>> \in cancelled =>
                \A strategy_id \in StrategyIds :
                    ComputeStats(state[c], strategy_id) =
                        ComputeStats([state[c] EXCEPT !.signals = Remove(@, id)], strategy_id)

\* The confidence_bps values above 10000 that a u16 can hold, at both ends.
InvalidConfidenceValues == {10001, 65535}

\* C14: publish with confidence_bps > 10000 answers InvalidConfidence, whether or
\* not the strategy exists or the caller owns it, and creates no signal: the
\* signal map, the counter and the signal-id lists (the whole chain state) are
\* unchanged and no message is sent.
C14_InvalidConfidenceRejected ==
    \A c \in Chains, a \in Accounts, strategy_id \in StrategyIds,
       direction \in Directions, confidence_bps \in InvalidConfidenceValues,
       entry_value \in EntryValues \cup {None} :
        LET r == execute_operation(state[c], clock[c], c, Some(a),
                    [type |-> "PublishSignal", strategy_id |-> strategy_id,
                     direction |-> direction, horizon_secs |-> 300,
                     confidence_bps |-> confidence_bps, entry_value |-> entry_value])
        IN  /\ r.response = ErrorResponse("InvalidConfidence")
            /\ r.state.signals = state[c].signals
            /\ r.state.next_signal_id = state[c].next_signal_id
            /\ r.state.signals_by_strategy = state[c].signals_by_strategy
            /\ r.state = state[c]
            /\ r.out = {}

\* C14 witness: a strategy exists whose owner has published under it, and the
\* same owner's publish with confidence 10001 is answered InvalidConfidence while
\* with confidence 10000 it would be accepted.
C14_Witness ==
    \E c \in Chains : \E strategy_id \in DOMAIN state[c].strategies :
        LET owner == state[c].strategies[strategy_id].owner
            Publish(confidence_bps) ==
                execute_operation(state[c], clock[c], c, Some(owner),
                    [type |-> "PublishSignal", strategy_id |-> strategy_id,
                     direction |-> "Up", horizon_secs |-> 300,
                     confidence_bps |-> confidence_bps, entry_value |-> Some(100)])
        IN  /\ strategy_id \in DOMAIN state[c].signals_by_strategy
            /\ Len(state[c].signals_by_strategy[strategy_id]) >= 1
            /\ Publish(10001).response = ErrorResponse("InvalidConfidence")
            /\ Publish(10000).response.type = "SignalPublished"

\* What PublishSignal submitted by owner does to chain c now.
PublishBy(c, owner, strategy_id, direction, confidence_bps, entry_value) ==
    execute_operation(state[c], clock[c], c, Some(owner),
        [type |-> "PublishSignal", strategy_id |-> strategy_id,
         direction |-> direction, horizon_secs |-> 300,
         confidence_bps |-> confidence_bps, entry_value |-> entry_value])

\* The number of entries equal to id in the signal-id lists of chain state s.
TimesListed(s, id) ==
    Cardinality({<<strategy_id, i>> \in
                    UNION {{strategy_id} \X DOMAIN s.signals_by_strategy[strategy_id] :
                           strategy_id \in DOMAIN s.signals_by_strategy} :
                 s.signals_by_strategy[strategy_id][i] = id})

\* C22: the ids handed out so far are 1 .. next_signal_id - 1, each listed exactly
\* once over all the signal-id lists, in increasing order within a list; a
\* successful publish returns the counter's value, advances the counter by one,
\* appends the id to the list of its strategy and to no other, and stores under
\* it an Open signal of that strategy; a failed publish changes nothing.
C22_SignalIdsUniqueAndIncreasing ==
    \A c \in Chains :
        LET s == state[c] IN
        /\ s.next_signal_id >= 1
        /\ \A id \in 1 .. (s.next_signal_id - 1) : TimesListed(s, id) = 1
        /\ \A strategy_id \in DOMAIN s.signals_by_strategy :
                LET signal_ids == s.signals_by_strategy[strategy_id] IN
                /\ \A i \in DOMAIN signal_ids : signal_ids[i] \in 1 .. (s.next_signal_id - 1)
                /\ \A i, j \in DOMAIN signal_ids : i < j => signal_ids[i] < signal_ids[j]
        /\ \A a \in Accounts, strategy_id \in StrategyIds, direction \in PublishDirections,
              confidence_bps \in ConfidenceValues, entry_value \in EntryValues :
                LET r == PublishBy(c, a, strategy_id, direction, confidence_bps, entry_value)
                    id == s.next_signal_id
                    before == UnwrapOr(Get(s.signals_by_strategy, strategy_id), << >>)
                IN  IF r.response.type = "SignalPublished"
                    THEN /\ r.response.id = id
                         /\ r.state.next_signal_id = id + 1
                         /\ r.state.signals_by_strategy[strategy_id] = Append(before, id)
                         /\ \A other \in DOMAIN s.signals_by_strategy \ {strategy_id} :
                                r.state.signals_by_strategy[other] = s.signals_by_strategy[other]
                         /\ TimesListed(r.state, id) = 1
                         /\ r.state.signals[id].status = "Open"
                         /\ r.state.signals[id].strategy_id = strategy_id
                         /\ r.state.signals[id].id = id
                    ELSE r.state = s /\ r.out = {}

\* C22 witness: two publishes have succeeded on a chain (ids 1 and 2 are listed,
\* the counter is 3), and a publish by another account fails there.
C22_Witness ==
    \E c \in Chains : \E strategy_id \in DOMAIN state[c].signals_by_strategy :
        /\ state[c].next_signal_id = 3
        /\ state[c].signals_by_strategy[strategy_id] = <<1, 2>>
        /\ \E a \in Accounts :
                PublishBy(c, a, strategy_id, "Up", 8000, Some(100)).response
                    = ErrorResponse("NotAuthorized")

\* C28: a SignalBroadcast received on a chain sets the signal-map entry of the
\* embedded signal's id to the embedded Signal, whatever the chain holds (no
\* subscription, a signal stored under that id already), and leaves the rest
\* of the state unchanged: the other signals, the signal-id lists, the stored
\* stats, the signal-id counter, the subscription state; no message is sent.
C28_BroadcastUpsertsSignalOnly ==
    \A c \in Chains, signal \in BroadcastSignals, signer \in MessageSigners :
        LET s == state[c]
            r == execute_message(s, clock[c], c, signer,
                    [type |-> "SignalBroadcast", signal |-> signal,
                     strategy_name |-> "S", strategist |-> "a1"])
        IN  /\ DOMAIN r.state.signals = DOMAIN s.signals \cup {signal.id}
            /\ r.state.signals[signal.id] = signal
            /\ \A other \in DOMAIN s.signals \ {signal.id} :
                    r.state.signals[other] = s.signals[other]
            /\ r.state.signals_by_strategy = s.signals_by_strategy
            /\ r.state.strategy_stats = s.strategy_stats
            /\ r.state.next_signal_id = s.next_signal_id
            /\ r.state.subscriptions = s.subscriptions
            /\ r.state.subscriptions_by_subscriber = s.subscriptions_by_subscriber
            /\ r.state.subscribers_by_strategist = s.subscribers_by_strategist
            /\ r.state.subscription_offers = s.subscription_offers
            /\ r.state.next_subscription_id = s.next_subscription_id
            /\ [r.state EXCEPT !.signals = s.signals] = s
            /\ r.out = {}

\* C28 witness: a chain with no subscription holds a signal that a broadcast
\* put over a published one: the id is listed, and the stored signal is Resolved
\* while the stored stats count no signal.
C28_Witness ==
    \E c \in Chains : \E id \in DOMAIN state[c].signals :
        /\ DOMAIN state[c].subscriptions = {}
        /\ TimesListed(state[c], id) = 1
        /\ state[c].signals[id].status = "Resolved"
        /\ state[c].signals[id].strategy_id \in DOMAIN state[c].strategy_stats
        /\ state[c].strategy_stats[state[c].signals[id].strategy_id].total_signals = 0

C30_OnlyOwnerPublishes ==
    \A c \in Chains, a \in Accounts, strategy_id \in StrategyIds,
       direction \in Directions, confidence_bps \in {0, 8000, 10000},
       entry_value \in EntryValues \cup {None} :
        LET s == state[c]
            r == PublishBy(c, a, strategy_id, direction, confidence_bps, entry_value)
            rejected == /\ r.state.signals = s.signals
                        /\ r.state.next_signal_id = s.next_signal_id
                        /\ r.state = s
                        /\ r.out = {}
        IN  /\ strategy_id \notin DOMAIN s.strategies =>
                    r.response = ErrorResponse("StrategyNotFound") /\ rejected
            /\ (strategy_id \in DOMAIN s.strategies /\ s.strategies[strategy_id].owner # a) =>
                    r.response = ErrorResponse("NotAuthorized") /\ rejected
            /\ r.response.type = "SignalPublished" =>
                    (strategy_id \in DOMAIN s.strategies /\ s.strategies[strategy_id].owner = a)

\* C30 witness: a chain holds a strategy under which its owner has published;
\* another account's publish under it is answered NotAuthorized, and the owner's
\* publish under a strategy id that does not exist is answered StrategyNotFound.
C30_Witness ==
    \E c \in Chains : \E strategy_id \in DOMAIN state[c].strategies :
        LET owner == state[c].strategies[strategy_id].owner IN
        /\ state[c].next_signal_id > 1
        /\ \E a \in Accounts \ {owner} :
                PublishBy(c, a, strategy_id, "Up", 8000, Some(100)).response
                    = ErrorResponse("NotAuthorized")
        /\ \E missing \in StrategyIds \ DOMAIN state[c].strategies :
                PublishBy(c, owner, missing, "Up", 8000, Some(100)).response
                    = ErrorResponse("StrategyNotFound")

\* C35: at the moment a publish allocates an id, that id is not a key of the
\* chain's signal map, so the publish overwrites no stored Signal: every record
\* stored before it is stored unchanged after it.
C35_PublishNeverOverwrites ==
    \A c \in Chains, a \in Accounts, strategy_id \in StrategyIds :
        LET s == state[c]
            r == PublishBy(c, a, strategy_id, "Down", 8000, Some(100))
        IN  r.response.type = "SignalPublished" =>
                /\ s.next_signal_id \notin DOMAIN s.signals
                /\ \A id \in DOMAIN s.signals :
                        id \in DOMAIN r.state.signals /\ r.state.signals[id] = s.signals[id]

-----------------------------------------------------------------------------
(* FollowSpec: the follower registry beside the ledger of one chain        *)

\* The Signal records a SignalBroadcast embeds here: resolved ones.
ResolvedBroadcastSignals ==
    {signal \in BroadcastSignals :
        signal.status = "Resolved" /\ signal.result = Some("Win")}

FollowNext ==
    \E c \in LedgerChains :
        \/ \E signer \in Signers : RegisterStrategist(c, signer)
        \/ \E signer \in Signers : CreateAgentStrategy(c, signer)
        \/ \E signer \in Signers, strategy_id \in StrategyIds :
                PublishSignal(c, signer, strategy_id, "Up", 300, 8000, Some(100))
        \/ \E signer \in Signers, signal_id \in SignalIds :
                ResolveSignal(c, signer, signal_id, 110)
        \/ \E signer \in Signers, strategy_id \in StrategyIds :
                UpdateStats(c, signer, strategy_id)
        \/ \E signer \in Signers, strategy_id \in StrategyIds :
                FollowStrategy(c, signer, strategy_id)
        \/ \E signer \in Signers, strategy_id \in StrategyIds :
                UnfollowStrategy(c, signer, strategy_id)
        \/ \E signal \in ResolvedBroadcastSignals : ReceiveSignalBroadcast(c, signal)

FollowSpec == Init /\ [][FollowNext]_vars

\* The accounts that follow strategy_id in chain state s.
FollowersOf(s, strategy_id) == {key \in DOMAIN s.followers : key[1] = strategy_id}

\* C18: for every strategy, the followers field of its stored stats and its
\* follower counter both equal the number of accounts now following it, and
\* neither is negative.
C18_FollowersIsNetCount ==
    \A c \in Chains : \A strategy_id \in DOMAIN state[c].strategy_stats :
        LET n == Cardinality(FollowersOf(state[c], strategy_id)) IN
        /\ state[c].strategy_stats[strategy_id].followers = n
        /\ UnwrapOr(Get(state[c].follower_count, strategy_id), 0) = n
        /\ state[c].strategy_stats[strategy_id].followers >= 0
        /\ UnwrapOr(Get(state[c].follower_count, strategy_id), 0) >= 0

\* C18 witness: two distinct accounts follow a strategy, and the unfollow of one
\* of them leaves one follower counted.
C18_Witness ==
    \E c \in Chains : \E strategy_id \in DOMAIN state[c].strategies :
        /\ Cardinality(FollowersOf(state[c], strategy_id)) = 2
        /\ state[c].strategy_stats[strategy_id].followers = 2
        /\ execute_operation(state[c], clock[c], c, Some("a1"),
                [type |-> "UnfollowStrategy", strategy_id |-> strategy_id])
              .state.strategy_stats[strategy_id].followers = 1

\* C19: right after a successful follow or unfollow, the stored stats of the
\* strategy are the full recomputation from the signals now stored in its
\* signal-id list, with the new follower count.
C19_FollowRecomputesStats ==
    \A c \in Chains, a \in Accounts, strategy_id \in StrategyIds :
        LET f == execute_operation(state[c], clock[c], c, Some(a),
                    [type |-> "FollowStrategy", strategy_id |-> strategy_id,
                     auto_copy |-> FALSE, max_exposure_units |-> 10])
            u == execute_operation(state[c], clock[c], c, Some(a),
                    [type |-> "UnfollowStrategy", strategy_id |-> strategy_id])
        IN  /\ f.response.type = "Followed" =>
                    f.state.strategy_stats[strategy_id] = ComputeStats(f.state, strategy_id)
            /\ u.response.type = "Unfollowed" =>
                    u.state.strategy_stats[strategy_id] = ComputeStats(u.state, strategy_id)

-----------------------------------------------------------------------------
(* Properties of the statistics (Spec)                                     *)

\* C20: every stored StrategyStats has
\* win_rate_bps = winning_signals * 10000 / total_signals (integer division),
\* 0 when total_signals = 0, and win_rate_bps is within 0 .. 10000.
C20_WinRate ==
    \A c \in Chains : \A strategy_id \in DOMAIN state[c].strategy_stats :
        LET stats == state[c].strategy_stats[strategy_id] IN
        /\ stats.win_rate_bps =
                IF stats.total_signals > 0
                THEN (stats.winning_signals * 10000) \div stats.total_signals
                ELSE 0
        /\ stats.win_rate_bps \in 0 .. 10000

\* C20 witness: a recompute has stored stats over two resolved signals, one of
\* them a win and the other a push, so that the rate is 5000.
C20_Witness ==
    \E c \in Chains : \E strategy_id \in DOMAIN state[c].strategy_stats :
        LET stats == state[c].strategy_stats[strategy_id] IN
        /\ stats.total_signals = 2
        /\ stats.winning_signals = 1
        /\ stats.push_signals = 1
        /\ stats.win_rate_bps = 5000

-----------------------------------------------------------------------------
(* CalcSpec: calculate_signal_result on its own, over 64-bit inputs        *)

\* 10^15
TenTo15 == <<0, 0, 0, 1000>>
\* 2^59 - 1 = 576460752303423487
Two59Less1 == <<3487, 342, 7523, 6460, 57>>

EntryInputs ==
    {None} \cup {Some(x) : x \in {NatOf(0), NatOf(1), NatOf(100), NatOf(20000),
                                  Two63, U64Max}}

ResolvedInputs ==
    {NatOf(0), NatOf(90), NatOf(100), NatOf(110), NatOf(22000), TenTo15, Two59Less1,
     NatAdd(Two63, NatOf(1)), NatSub(U64Max, NatOf(1)), U64Max}

\* The most Resolved signals a strategy holds when its stats are recomputed.
MaxResolved == 2

\* 9 * 10^14
NineTo14 == <<0, 0, 0, 900>>

\* Resolves that succeed in every build, as <<direction, entry, resolved_value>>.
ResolveInputs ==
    {<<"Up", NatOf(100), NatOf(110)>>, <<"Up", NatOf(100), NatOf(90)>>,
     <<"Up", NatOf(3), NatOf(4)>>, <<"Down", NatOf(3), NatOf(4)>>,
     <<"Up", NatOf(1), NatOf(214750)>>,
     <<"Up", NatOf(1), NineTo14>>, <<"Down", NatOf(1), NineTo14>>}

\* The pnl_bps that those resolves store in their signals.
StoredPnls ==
    {calculate_signal_result_i64(x[1], x[2], x[3], TRUE).pnl_bps : x \in ResolveInputs}

\* The pnl_bps of the Resolved signals of a strategy, in list order.
PnlSequences == UNION {[1 .. n -> StoredPnls] : n \in 0 .. MaxResolved}

CalcInit ==
    /\ state = [c \in Chains |-> instantiate("c1")]
    /\ clock = [c \in Chains |-> Micros(0)]
    /\ network = {}
    /\ delivered = {}
    /\ subscribed = {}
    /\ cancelled = {}
    /\ calc \in [op : {"calculate_signal_result"}, direction : Directions,
                  entry_value : EntryInputs, resolved_value : ResolvedInputs,
                  overflow_checks : BOOLEAN, out : {None}]
              \cup [op : {"update_strategy_stats"}, pnls : PnlSequences,
                    overflow_checks : BOOLEAN, out : {None}]
              \cup [op : {"publish_signal"}, now : {NatOf(0), NatOf(1), TenTo15},
                    horizon_secs : {NatOf(0), NatOf(300), NatOf(86400),
                                    NatDiv(U64Max, NatOf(1000000)),
                                    NatAdd(NatDiv(U64Max, NatOf(1000000)), NatOf(1)),
                                    U64Max},
                    overflow_checks : BOOLEAN, out : {None}]

\* resolve_signal's call of calculate_signal_result on the inputs drawn.
Calculate ==
    /\ calc.op = "calculate_signal_result"
    /\ calc.out = None
    /\ calc' = [calc EXCEPT !.out =
                    Some(calculate_signal_result_i64(calc.direction,
                            UnwrapOr(calc.entry_value, << >>), calc.resolved_value,
                            calc.overflow_checks))]
    /\ UNCHANGED <<state, clock, network, delivered, subscribed, cancelled>>

\* update_strategy_stats on the Resolved signals drawn.
Recompute ==
    /\ calc.op = "update_strategy_stats"
    /\ calc.out = None
    /\ calc' = [calc EXCEPT !.out =
                    Some(update_strategy_stats_i64(calc.pnls, calc.overflow_checks))]
    /\ UNCHANGED <<state, clock, network, delivered, subscribed, cancelled>>

\* publish_signal's computation of expires_at on the inputs drawn.
ComputeExpiry ==
    /\ calc.op = "publish_signal"
    /\ calc.out = None
    /\ calc' = [calc EXCEPT !.out =
                    Some(expires_at_u64(calc.now, calc.horizon_secs, calc.overflow_checks))]
    /\ UNCHANGED <<state, clock, network, delivered, subscribed, cancelled>>

CalcNext == Calculate \/ Recompute \/ ComputeExpiry

CalcSpec == CalcInit /\ [][CalcNext]_vars

\* The computation has been done.
Calculated == calc.op = "calculate_signal_result" /\ calc.out # None

\* The reference PnL: 0 if entry or resolved_value is 0, otherwise
\* raw = (resolved_value - entry) * 10000 / entry truncated toward zero, raw for
\* Up/Over/Yes and -raw for Down/Under/No, in unbounded integers.
ReferencePnl(direction, entry, resolved_value) ==
    IF entry = << >> \/ resolved_value = << >> THEN SignedOf(0)
    ELSE LET raw == SignedDiv(
                        SignedMul(SignedSub(Signed(FALSE, resolved_value),
                                            Signed(FALSE, entry)), SignedOf(10000)),
                        Signed(FALSE, entry))
         IN IF direction \in {"Up", "Over", "Yes"} THEN raw ELSE SignedNeg(raw)

\* The reference result: Push if entry or resolved_value is 0; otherwise for
\* Up/Over/Yes Win when resolved_value is above entry, Lose when below, Push when
\* equal, and the mirror for Down/Under/No.
ReferenceResult(direction, entry, resolved_value) ==
    LET cmp == NatCmp(resolved_value, entry) IN
    IF entry = << >> \/ resolved_value = << >> \/ cmp = 0 THEN "Push"
    ELSE IF direction \in {"Up", "Over", "Yes"}
    THEN IF cmp > 0 THEN "Win" ELSE "Lose"
    ELSE IF cmp < 0 THEN "Win" ELSE "Lose"

\* C15: for every direction, entry value and resolved value, the computation
\* returns and its pnl_bps is the reference PnL.
C15_PnlIsReference ==
    Calculated =>
        LET out == Unwrap(calc.out) IN
        /\ ~out.panic
        /\ out.pnl_bps = ReferencePnl(calc.direction, UnwrapOr(calc.entry_value, << >>),
                                       calc.resolved_value)

\* C16: for every direction, entry value and resolved value, the computation
\* returns and its result is the reference result.
C16_ResultIsReference ==
    Calculated =>
        LET out == Unwrap(calc.out) IN
        /\ ~out.panic
        /\ out.result = ReferenceResult(calc.direction, UnwrapOr(calc.entry_value, << >>),
                                         calc.resolved_value)

\* C17: whenever the computation returns, a Win has pnl_bps >= 0, a Lose has
\* pnl_bps <= 0 and a Push has pnl_bps = 0.
C17_PnlInFavor ==
    (Calculated /\ ~Unwrap(calc.out).panic) =>
        LET out == Unwrap(calc.out) IN
        /\ out.result = "Win" => ~out.pnl_bps.neg
        /\ out.result = "Lose" => (out.pnl_bps.neg \/ out.pnl_bps.mag = << >>)
        /\ out.result = "Push" => out.pnl_bps.mag = << >>

\* The recompute has been done.
Recomputed == calc.op = "update_strategy_stats" /\ calc.out # None

\* The sum of pnls[i..] in unbounded integers.
RECURSIVE ExactSum(_, _)
ExactSum(pnls, i) ==
    IF i > Len(pnls) THEN SignedOf(0) ELSE SignedAdd(pnls[i], ExactSum(pnls, i + 1))

\* C21: after a stats recompute over any set of resolved signals, the recompute
\* has returned, total_pnl_bps is the exact sum of their pnl_bps, and avg_pnl_bps
\* is total_pnl_bps / total_signals truncated toward zero (0 when there are none).
C21_PnlTotalsExact ==
    Recomputed =>
        LET out == Unwrap(calc.out)
            n == Len(calc.pnls)
        IN  /\ ~out.panic
            /\ out.total_pnl_bps = ExactSum(calc.pnls, 1)
            /\ out.avg_pnl_bps = IF n = 0 THEN SignedOf(0)
                                  ELSE SignedDiv(out.total_pnl_bps, SignedOf(n))

\* C32: for every current time and every horizon_secs a u64 holds, a publish
\* that succeeds (its computation of expires_at does not panic) stores an
\* expires_at equal to created_at (the current time) plus
\* horizon_secs * 1,000,000 microseconds.
C32_ExpiresAtIsCreatedPlusHorizon ==
    (calc.op = "publish_signal" /\ calc.out # None) =>
        LET out == Unwrap(calc.out) IN
        out.panic \/ out.value = NatAdd(calc.now, NatMul(calc.horizon_secs, <<0, 100>>))

-----------------------------------------------------------------------------
(* MutualSpec: both chains offer subscriptions and subscribe to each other *)

MutualNext ==
    \/ \E c \in Chains, signer \in Signers : RegisterStrategist(c, signer)
    \/ \E c \in Chains, signer \in Signers : EnableSubscription(c, signer)
    \/ \E c \in Chains, signer \in Signers :
            \E target \in Chains \ {c} :
                SubscribeToStrategist(c, signer, "a1", ChainIdToString(target))
    \/ DeliverSome

MutualSpec == Init /\ [][MutualNext]_vars

\* C36: no step of a chain replaces a stored Subscription by a record of another
\* relationship: every token of the chain's subscription map keeps its
\* subscriber, strategist and strategist chain.
C36_StoreKeepsRelationship ==
    [][\A c \in Chains : \A id \in DOMAIN state[c].subscriptions :
          /\ id \in DOMAIN state'[c].subscriptions
          /\ state'[c].subscriptions[id].subscriber = state[c].subscriptions[id].subscriber
          /\ state'[c].subscriptions[id].strategist = state[c].subscriptions[id].strategist
          /\ state'[c].subscriptions[id].strategist_chain_id
                = state[c].subscriptions[id].strategist_chain_id]_vars

\* Chain d holds under token id the strategist's copy of a subscription: a
\* record of strategist on d itself, ending at end_timestamp.
StrategistSideRecord(d, id, strategist, end_timestamp) ==
    /\ id \in DOMAIN state[d].subscriptions
    /\ state[d].subscriptions[id].strategist = strategist
    /\ state[d].subscriptions[id].strategist_chain_id = ChainIdToString(d)
    /\ state[d].subscriptions[id].end_timestamp = end_timestamp

\* C37: with only the messages the contract sent delivered, every
\* SubscriptionConfirmed sent (in flight or delivered) and every subscriber-side
\* Subscription record (one whose strategist chain is another chain) has on the
\* strategist's chain a strategist-side record with the same token and the same
\* end_timestamp.
C37_ConfirmationHasStrategistRecord ==
    /\ \A m \in network \cup delivered :
            m.msg.type = "SubscriptionConfirmed" =>
                /\ IsSome(ParseChainId(m.msg.strategist_chain_id))
                /\ StrategistSideRecord(Unwrap(ParseChainId(m.msg.strategist_chain_id)),
                        m.msg.subscription_id, m.msg.strategist, m.msg.end_timestamp)
    /\ \A c \in Chains : \A id \in DOMAIN state[c].subscriptions :
            LET sub == state[c].subscriptions[id] IN
            sub.strategist_chain_id # ChainIdToString(c) =>
                /\ IsSome(ParseChainId(sub.strategist_chain_id))
                /\ StrategistSideRecord(Unwrap(ParseChainId(sub.strategist_chain_id)),
                        id, sub.strategist, sub.end_timestamp)

-----------------------------------------------------------------------------
(* AllOpsSpec: one chain that is ledger, follower registry and subscriber, *)
(* beside a strategist chain, so that every error of every operation can   *)
(* occur                                                                   *)

AllOpsNext ==
    \/ \E c \in Chains, signer \in Signers : RegisterStrategist(c, signer)
    \/ \E c \in LedgerChains, signer \in Signers : CreateAgentStrategy(c, signer)
    \/ \E c \in LedgerChains, signer \in Signers :
            PublishSignal(c, signer, 1, "Up", 300, 8000, Some(100))
    \/ \E c \in LedgerChains, signer \in Signers, signal_id \in 1 .. MaxSignals :
            ResolveSignal(c, signer, signal_id, 110)
    \/ \E c \in LedgerChains, signer \in Signers, signal_id \in 1 .. MaxSignals :
            CancelSignal(c, signer, signal_id)
    \/ \E c \in LedgerChains, signer \in Signers : FollowStrategy(c, signer, 1)
    \/ \E c \in StrategistChains, signer \in Signers : EnableSubscription(c, signer)
    \/ \E c \in SubscriberChains, signer \in Signers, strategist \in Accounts :
            SubscribeToStrategist(c, signer, strategist, "c2")
    \/ DeliverSome

AllOpsSpec == Init /\ [][AllOpsNext]_vars

\* The operations submitted to a chain: every variant, with arguments that hit
\* and miss what the chain stores.
OperationInputs ==
    {[type |-> "RegisterStrategist", display_name |-> "name"],
     [type |-> "CreateAgentStrategy", name |-> "S", description |-> "d",
      market_kind |-> "Crypto", base_market |-> "BTC-USD",
      is_public |-> TRUE, is_ai_controlled |-> TRUE],
     [type |-> "EnableSubscription", description |-> None],
     [type |-> "DisableSubscription"]}
    \cup {[type |-> "PublishSignal", strategy_id |-> strategy_id, direction |-> "Up",
           horizon_secs |-> 300, confidence_bps |-> confidence_bps,
           entry_value |-> Some(100)] :
                strategy_id \in StrategyIds, confidence_bps \in ConfidenceValues}
    \cup {[type |-> "ResolveSignal", signal_id |-> signal_id, resolved_value |-> 110] :
                signal_id \in SignalIds}
    \cup {[type |-> "CancelSignal", signal_id |-> signal_id] : signal_id \in SignalIds}
    \cup {[type |-> "FollowStrategy", strategy_id |-> strategy_id, auto_copy |-> FALSE,
           max_exposure_units |-> 10] : strategy_id \in StrategyIds}
    \cup {[type |-> "UnfollowStrategy", strategy_id |-> strategy_id] :
                strategy_id \in StrategyIds}
    \cup {[type |-> "UpdateStats", strategy_id |-> strategy_id] : strategy_id \in StrategyIds}
    \cup {[type |-> "SubscribeToStrategist", strategist |-> strategist,
           strategist_chain_id |-> strategist_chain_id] :
                strategist \in Accounts, strategist_chain_id \in ChainIdStrings}
    \cup {[type |-> "UnsubscribeFromStrategist", strategist |-> strategist] :
                strategist \in Accounts}

\* The answer of chain c to operation submitted by signer now.
Answer(c, signer, operation) ==
    execute_operation(state[c], clock[c], c, signer, operation)

\* C31: every operation that is answered with an Error response, an operation
\* submitted without a signer included, leaves the whole state of its chain
\* unchanged and sends no message; and an operation without a signer is always
\* answered with the not-authenticated error.
C31_ErrorsChangeNothing ==
    \A c \in Chains, signer \in Signers, operation \in OperationInputs :
        LET r == Answer(c, signer, operation) IN
        /\ r.response.type = "Error" => (r.state = state[c] /\ r.out = {})
        /\ signer = None => r.response = ErrorResponse("NotAuthenticated")

\* C31 witness: a chain on which operations of the ledger, of the follower
\* registry and of the subscriptions are all refused, each with its own error.
C31_Witness ==
    \E c \in Chains, a \in Accounts :
        LET Message(operation) == Answer(c, Some(a), operation).response IN
        /\ Message([type |-> "RegisterStrategist", display_name |-> "name"])
                = ErrorResponse("StrategistAlreadyRegistered")
        /\ Message([type |-> "ResolveSignal", signal_id |-> 1, resolved_value |-> 110])
                = ErrorResponse("SignalAlreadyResolved")
        /\ Message([type |-> "CancelSignal", signal_id |-> 2])
                = ErrorResponse("SignalNotOpen")
        /\ Message([type |-> "FollowStrategy", strategy_id |-> 1, auto_copy |-> FALSE,
                     max_exposure_units |-> 10]) = ErrorResponse("AlreadyFollowing")
        /\ \E strategist \in Accounts :
                Message([type |-> "SubscribeToStrategist", strategist |-> strategist,
                         strategist_chain_id |-> "c2"]) = ErrorResponse("AlreadySubscribed")
        /\ \E b \in Accounts :
                Answer(c, Some(b), [type |-> "CancelSignal", signal_id |-> 1]).response
                    = ErrorResponse("NotAuthorized")

====
